---- MODULE Spec2Model ----
(***************************************************************************)
(* State-machine model of linux_specific/merge_for_llm.py: the truncator   *)
(* (truncate_large_content_streaming), the file selector                   *)
(* (gather_files_enhanced), the orderer (smart_file_ordering) and the run  *)
(* of main. A Python str that the code inspects character by character     *)
(* (paths, names, patterns) is a sequence of one-character strings.        *)
(***************************************************************************)
EXTENDS Integers, Sequences, FiniteSets, TLC

VARIABLES
    \* ---- truncate_large_content_streaming
    tpc,              \* position in the function: "open", "scan", "rest", "done"
    tfile,            \* the file at filepath: [readable, text (its lines), eof_newline]
    max_lines,        \* the max_lines argument
    fpos,             \* number of lines the file iterator f has yielded
    lines,            \* local list lines
    line_count,       \* local counter line_count
    remaining_lines,  \* local list remaining_lines
    content,          \* first element of the returned pair, as the list that is joined
    was_truncated,    \* second element of the returned pair
    \* ---- gather_files_enhanced
    gpc,                         \* position: "setup", "roots", "done"
    paths,                       \* argument paths
    extensions,                  \* argument extensions (None or a list)
    max_file_size,               \* argument max_file_size
    priority_files,              \* argument priority_files (None or a list)
    output_file,                 \* argument output_file (None or a path)
    respect_ignore_files,        \* argument respect_ignore_files
    ignore_files,                \* argument ignore_files (None or a list)
    ignore_dirs,                 \* argument ignore_dirs (None or a list)
    ignore_ext,                  \* argument ignore_ext (None or a list)
    combined_exclude_dirs,       \* local set combined_exclude_dirs
    combined_exclude_files,      \* local set combined_exclude_files
    combined_binary_extensions,  \* local set combined_binary_extensions
    priority_set,                \* local set priority_set
    output_abs,                  \* local output_abs (None or an absolute path)
    ridx,                        \* index in paths of the root the outer loop is at
    collected,                   \* local list collected
    discovered,                  \* history: every candidate path the loops examined
    selected,                    \* the returned list
    module_globals,              \* the module-level rule sets as the interpreter holds them
    earlier,                     \* what an earlier call with the same arguments returned
    \* ---- smart_file_ordering
    opc,                         \* position: "loop", "done"
    file_data,                   \* argument file_data: a list of (filepath, metadata)
    oidx,                        \* index in file_data of the record the loop is at
    config_files,                \* local list config_files
    entry_points,                \* local list entry_points
    core_files,                  \* local list core_files
    test_files,                  \* local list test_files
    binary_files,                \* local list binary_files
    ordered,                     \* the returned list
    \* ---- main
    mpc,                         \* position: "start", "gather", "analyze", "order",
                                 \* "write", "done"
    args,                        \* the parsed command line
    main_files,                  \* local files
    main_file_data,              \* local file_data
    analyzer_stats,              \* analyzer.total_stats
    trace,                       \* history: the stages the run has entered
    raised,                      \* the exception that ended the run, if one did
    exit_status,                 \* the status the process ends with
    artifact,                    \* the output file: None until it is opened
    stats,                       \* local stats, the value of write_enhanced_output
    \* ---- parse_ignore_file
    ppc,                         \* position of the call: idle, open, loop, done
    ignore_file,                 \* the file at ignore_file_path: readable, text (its lines)
    pidx,                        \* the line the loop is at
    dirs_to_exclude,             \* local dirs_to_exclude
    files_to_exclude,            \* local files_to_exclude
    negation_patterns_found,     \* local negation_patterns_found
    \* ---- download_youtube.main and its worker threads
    dpc,                         \* position of main: idle, submit, collect, returned
    video_entries,               \* local video_entries: for each entry, whether its download raises
    max_workers,                 \* local max_workers
    futures,                     \* the futures submitted, in order (indices into video_entries)
    fpc,                         \* for each entry, where its fetch_data call is
    lock,                        \* module-level lock: None, or the entry whose call holds it
    output_dir_exists,           \* os.path.exists(output_dir)
    makedirs_calls,              \* history: each os.makedirs call, and whether the directory was there
    yielded,                     \* the futures as_completed has yielded
    caught,                      \* the entries whose exception the except clause of main printed
    uncaught                     \* the exception that left main, if one did

truncVars == <<tpc, tfile, max_lines, fpos, lines, line_count, remaining_lines,
               content, was_truncated>>

gatherArgs == <<paths, extensions, max_file_size, priority_files, output_file,
                respect_ignore_files, ignore_files, ignore_dirs, ignore_ext>>

gatherRules == <<combined_exclude_dirs, combined_exclude_files,
                 combined_binary_extensions, priority_set, output_abs, module_globals>>

gatherVars == <<gpc, gatherArgs, gatherRules, ridx, collected, discovered, selected,
                earlier>>

orderVars == <<opc, file_data, oidx, config_files, entry_points, core_files, test_files,
               binary_files, ordered>>

mainVars == <<mpc, args, main_files, main_file_data, analyzer_stats, trace, raised,
              exit_status,
              artifact, stats>>

parseVars == <<ppc, ignore_file, pidx, dirs_to_exclude, files_to_exclude,
               negation_patterns_found>>

downloadVars == <<dpc, video_entries, max_workers, futures, fpc, lock, output_dir_exists,
                  makedirs_calls, yielded, caught, uncaught>>

vars == <<truncVars, gatherVars, orderVars, mainVars, parseVars, downloadVars>>

\* ----------------------------------------------------------------- helpers
Min(a, b) == IF a < b THEN a ELSE b
Max(a, b) == IF a > b THEN a ELSE b

\* Python s[:n] for n >= 0
PyHead(s, n) == SubSeq(s, 1, Min(n, Len(s)))

\* Python s[i:] for any integer i (a negative i counts from the end; -0 is 0)
PySliceFrom(s, i) ==
    LET start == IF i < 0 THEN Max(Len(s) + i, 0) ELSE Min(i, Len(s))
    IN  SubSeq(s, start + 1, Len(s))

\* all sequences over S of length at most n
RECURSIVE SeqsUpTo(_, _)
SeqsUpTo(S, n) ==
    IF n = 0 THEN {<<>>}
    ELSE LET shorter == SeqsUpTo(S, n - 1)
         IN  shorter \cup {Append(s, x) : s \in {t \in shorter : Len(t) = n - 1}, x \in S}

Range(s) == {s[i] : i \in 1 .. Len(s)}

\* ------------------------------------------------------------------ bounds
MaxFileLines == 5
MaxMaxLines == 4
MaxRoots == 2

\* ========================================================================
\* Strings. A Python str is modelled as the sequence of its characters.
\* ========================================================================
EmptyStr == <<>>

\* s.startswith(prefix)
StartsWith(s, prefix) ==
    Len(prefix) <= Len(s) /\ SubSeq(s, 1, Len(prefix)) = prefix

\* s.endswith(suffix)
EndsWith(s, suffix) ==
    Len(suffix) <= Len(s) /\ SubSeq(s, Len(s) - Len(suffix) + 1, Len(s)) = suffix

\* sub in s
Contains(s, sub) ==
    \E i \in 1 .. (Len(s) - Len(sub) + 1) : SubSeq(s, i, i + Len(sub) - 1) = sub

\* c in s, for one character c
HasChar(s, c) == \E i \in 1 .. Len(s) : s[i] = c

\* s.rfind(c) + 1 for one character c: the last position of c in s, 0 when absent
RFind(s, c) ==
    LET hits == {i \in 1 .. Len(s) : s[i] = c}
    IN  IF hits = {} THEN 0 ELSE CHOOSE i \in hits : \A j \in hits : j <= i

\* str.lower(), on ASCII
UpperCase == <<"A","B","C","D","E","F","G","H","I","J","K","L","M",
               "N","O","P","Q","R","S","T","U","V","W","X","Y","Z">>
LowerCase == <<"a","b","c","d","e","f","g","h","i","j","k","l","m",
               "n","o","p","q","r","s","t","u","v","w","x","y","z">>
LowerChar(c) ==
    IF \E i \in 1 .. Len(UpperCase) : UpperCase[i] = c
    THEN LowerCase[CHOOSE i \in 1 .. Len(UpperCase) : UpperCase[i] = c]
    ELSE c
Lower(s) == [i \in 1 .. Len(s) |-> LowerChar(s[i])]

\* s.strip(): leading and trailing blanks removed
IsBlank(c) == c \in {" ", "\t", "\n"}
RECURSIVE LStrip(_)
LStrip(s) == IF s # <<>> /\ IsBlank(Head(s)) THEN LStrip(Tail(s)) ELSE s
RECURSIVE RStrip(_)
RStrip(s) ==
    IF s # <<>> /\ IsBlank(s[Len(s)]) THEN RStrip(SubSeq(s, 1, Len(s) - 1)) ELSE s
Strip(s) == RStrip(LStrip(s))

\* s.rstrip("/")
RECURSIVE RStripSlash(_)
RStripSlash(s) ==
    IF s # <<>> /\ s[Len(s)] = "/" THEN RStripSlash(SubSeq(s, 1, Len(s) - 1)) ELSE s

\* s.replace(old, ""), old not empty: every non-overlapping occurrence, left to right
RECURSIVE Remove(_, _)
Remove(s, old) ==
    IF s = <<>> THEN <<>>
    ELSE IF StartsWith(s, old) THEN Remove(SubSeq(s, Len(old) + 1, Len(s)), old)
    ELSE <<Head(s)>> \o Remove(Tail(s), old)

\* s.split("/")
RECURSIVE SplitSlash(_)
SplitSlash(s) ==
    IF ~HasChar(s, "/") THEN <<s>>
    ELSE LET i == CHOOSE k \in 1 .. Len(s) : s[k] = "/" /\ \A j \in 1 .. (k - 1) : s[j] # "/"
         IN  <<SubSeq(s, 1, i - 1)>> \o SplitSlash(SubSeq(s, i + 1, Len(s)))

\* "/".join(parts)
RECURSIVE JoinSlash(_)
JoinSlash(parts) ==
    IF parts = <<>> THEN <<>>
    ELSE IF Len(parts) = 1 THEN parts[1]
    ELSE parts[1] \o <<"/">> \o JoinSlash(Tail(parts))

\* fnmatch.fnmatch(name, pattern) on POSIX, for patterns made of literals, * and ?
RECURSIVE FnMatch(_, _)
FnMatch(name, pattern) ==
    IF pattern = <<>> THEN name = <<>>
    ELSE IF Head(pattern) = "*"
         THEN FnMatch(name, Tail(pattern)) \/ (name # <<>> /\ FnMatch(Tail(name), pattern))
    ELSE IF Head(pattern) = "?"
         THEN name # <<>> /\ FnMatch(Tail(name), Tail(pattern))
    ELSE name # <<>> /\ Head(name) = Head(pattern) /\ FnMatch(Tail(name), Tail(pattern))

\* ------------------------------------------------------------------------
\* Paths (pathlib.PurePosixPath and os.path on POSIX)

\* pathlib.Path(p).parts: empty and "." segments dropped, "/" first for absolute p
PathParts(p) ==
    LET segs == SelectSeq(SplitSlash(p), LAMBDA x : x # <<>> /\ x # <<".">>)
    IN  IF StartsWith(p, <<"/">>) THEN <<(<<"/">>)>> \o segs ELSE segs

IsAbsolute(p) == StartsWith(p, <<"/">>)

\* str(pathlib.Path(p))
PathStr(p) ==
    LET parts == PathParts(p)
    IN  IF parts = <<>> THEN <<".">>
        ELSE IF IsAbsolute(p) THEN <<"/">> \o JoinSlash(Tail(parts))
        ELSE JoinSlash(parts)

\* pathlib.Path(p).name
PathName(p) ==
    LET parts == PathParts(p)
    IN  IF parts = <<>> \/ parts = <<(<<"/">>)>> THEN <<>> ELSE parts[Len(parts)]

\* pathlib.Path(p).suffix: from the last dot of the name, unless that dot is the
\* first or the last character of the name
PathSuffix(p) ==
    LET name == PathName(p)
        i == RFind(name, ".")
    IN  IF 1 < i /\ i < Len(name) THEN SubSeq(name, i, Len(name)) ELSE <<>>

\* os.path.basename(p)
Basename(p) == SubSeq(p, RFind(p, "/") + 1, Len(p))

\* os.path.dirname(p)
Dirname(p) ==
    LET i == RFind(p, "/")
        head == SubSeq(p, 1, i)
    IN  IF head # <<>> /\ \E k \in 1 .. Len(head) : head[k] # "/"
        THEN RStripSlash(head) ELSE head

\* os.path.join(a, b)
PathJoin(a, b) ==
    IF StartsWith(b, <<"/">>) THEN b
    ELSE IF a = <<>> \/ EndsWith(a, <<"/">>) THEN a \o b
    ELSE a \o <<"/">> \o b

\* ========================================================================
\* Module-level rule sets
\* ========================================================================
\* IGNORE_FILES_TO_PARSE (lines 37-45)
IGNORE_FILES_TO_PARSE ==
    <<
      <<".","g","i","t","i","g","n","o","r","e">>,
      <<".","d","o","c","k","e","r","i","g","n","o","r","e">>,
      <<".","g","c","l","o","u","d","i","g","n","o","r","e">>,
      <<".","c","o","n","t","a","i","n","e","r","i","g","n","o","r","e">>,
      <<".","n","p","m","i","g","n","o","r","e">>,
      <<".","p","r","e","t","t","i","e","r","i","g","n","o","r","e">>,
      <<".","e","s","l","i","n","t","i","g","n","o","r","e">>
    >>

\* BINARY_EXTENSIONS (lines 48-65)
BINARY_EXTENSIONS ==
    {
      <<".","7","z">>,
      <<".","a","p","p">>,
      <<".","a","v","i">>,
      <<".","b","i","n">>,
      <<".","b","m","p">>,
      <<".","b","z","2">>,
      <<".","c","l","a","s","s">>,
      <<".","d","a","t">>,
      <<".","d","b">>,
      <<".","d","e","b">>,
      <<".","d","l","l">>,
      <<".","d","o","c">>,
      <<".","d","o","c","x">>,
      <<".","d","y","l","i","b">>,
      <<".","e","a","r">>,
      <<".","e","g","g">>,
      <<".","e","o","t">>,
      <<".","e","x","e">>,
      <<".","f","l","a","c">>,
      <<".","g","i","f">>,
      <<".","g","z">>,
      <<".","i","c","o">>,
      <<".","j","a","r">>,
      <<".","j","p","e","g">>,
      <<".","j","p","g">>,
      <<".","m","4","a">>,
      <<".","m","d","b">>,
      <<".","m","k","v">>,
      <<".","m","o","v">>,
      <<".","m","p","3">>,
      <<".","m","p","4">>,
      <<".","o","d","s">>,
      <<".","o","d","t">>,
      <<".","o","g","g">>,
      <<".","o","t","f">>,
      <<".","p","d","f">>,
      <<".","p","n","g">>,
      <<".","p","p","t">>,
      <<".","p","p","t","x">>,
      <<".","p","s","d">>,
      <<".","p","y","c">>,
      <<".","p","y","o">>,
      <<".","r","a","r">>,
      <<".","r","p","m">>,
      <<".","s","o">>,
      <<".","s","q","l","i","t","e">>,
      <<".","s","q","l","i","t","e","3">>,
      <<".","s","v","g">>,
      <<".","t","a","r">>,
      <<".","t","g","z">>,
      <<".","t","i","f","f">>,
      <<".","t","t","f">>,
      <<".","w","a","r">>,
      <<".","w","a","v">>,
      <<".","w","e","b","m">>,
      <<".","w","e","b","p">>,
      <<".","w","h","l">>,
      <<".","w","o","f","f">>,
      <<".","w","o","f","f","2">>,
      <<".","x","l","s">>,
      <<".","x","l","s","x">>,
      <<".","x","z">>,
      <<".","z","i","p">>
    }

\* EXCLUDE_DIRS (lines 68-92)
EXCLUDE_DIRS ==
    {
      <<".","D","S","_","S","t","o","r","e">>,
      <<".","e","n","v">>,
      <<".","g","i","t">>,
      <<".","i","d","e","a">>,
      <<".","m","y","p","y","_","c","a","c","h","e">>,
      <<".","p","y","t","e","s","t","_","c","a","c","h","e">>,
      <<".","t","e","r","r","a","f","o","r","m">>,
      <<".","t","o","x">>,
      <<".","v","a","g","r","a","n","t">>,
      <<".","v","e","n","v">>,
      <<".","v","s","c","o","d","e">>,
      <<"_","_","p","y","c","a","c","h","e","_","_">>,
      <<"b","o","w","e","r","_","c","o","m","p","o","n","e","n","t","s">>,
      <<"b","u","i","l","d">>,
      <<"c","o","v","e","r","a","g","e">>,
      <<"d","i","s","t">>,
      <<"e","n","v">>,
      <<"h","t","m","l","c","o","v">>,
      <<"l","o","g","s">>,
      <<"n","o","d","e","_","m","o","d","u","l","e","s">>,
      <<"t","e","m","p">>,
      <<"t","m","p">>,
      <<"v","e","n","v">>
    }

\* EXCLUDE_GLOBS (lines 95-127)
EXCLUDE_GLOBS ==
    {
      <<"*","*","/","c","o","m","p","o","n","e","n","t","s","/","u","i","/","*","*">>,
      <<".","a","w","s","-","s","a","m","/","*","*">>,
      <<".","b","z","r","/","*","*">>,
      <<".","c","a","c","h","e","/","*","*">>,
      <<".","g","i","t","/","*","*">>,
      <<".","h","g","/","*","*">>,
      <<".","i","d","e","a","/","*","*">>,
      <<".","j","e","s","t","/","*","*">>,
      <<".","m","y","p","y","_","c","a","c","h","e","/","*","*">>,
      <<".","n","e","x","t","/","*","*">>,
      <<".","n","u","x","t","/","*","*">>,
      <<".","n","y","c","_","o","u","t","p","u","t","/","*","*">>,
      <<".","p","a","r","c","e","l","-","c","a","c","h","e","/","*","*">>,
      <<".","p","y","t","e","s","t","_","c","a","c","h","e","/","*","*">>,
      <<".","s","e","r","v","e","r","l","e","s","s","/","*","*">>,
      <<".","s","v","n","/","*","*">>,
      <<".","t","o","x","/","*","*">>,
      <<".","t","u","r","b","o","/","*","*">>,
      <<".","v","s","/","*","*">>,
      <<".","v","s","c","o","d","e","/","*","*">>,
      <<"_","_","p","y","c","a","c","h","e","_","_","/","*","*">>,
      <<"b","u","i","l","d","/","*","*">>,
      <<"c","o","m","p","o","n","e","n","t","s","/","u","i","/","*","*">>,
      <<"d","i","s","t","/","*","*">>,
      <<"h","t","m","l","c","o","v","/","*","*">>,
      <<"n","o","d","e","_","m","o","d","u","l","e","s","/","*","*">>,
      <<"v","e","n","d","o","r","/","*","*">>
    }

\* EXCLUDE_FILES (lines 129-191)
EXCLUDE_FILES ==
    {
      <<"*",".","b","a","k">>,
      <<"*",".","b","u","n","d","l","e",".","j","s">>,
      <<"*",".","c","h","u","n","k",".","j","s">>,
      <<"*",".","l","o","g">>,
      <<"*",".","m","a","p">>,
      <<"*",".","m","d">>,
      <<"*",".","m","i","n",".","c","s","s">>,
      <<"*",".","m","i","n",".","j","s">>,
      <<"*",".","p","i","d">>,
      <<"*",".","p","i","d",".","l","o","c","k">>,
      <<"*",".","r","s","t">>,
      <<"*",".","s","e","e","d">>,
      <<"*",".","s","n","a","p">>,
      <<"*",".","s","t","a","t","s",".","j","s","o","n">>,
      <<"*",".","s","w","n">>,
      <<"*",".","s","w","o">>,
      <<"*",".","s","w","p">>,
      <<"*",".","t","e","m","p">>,
      <<"*",".","t","m","p">>,
      <<"*",".","t","x","t">>,
      <<"*","~">>,
      <<".","D","S","_","S","t","o","r","e">>,
      <<".","b","a","b","e","l","r","c","*">>,
      <<".","e","d","i","t","o","r","c","o","n","f","i","g">>,
      <<".","e","n","v">>,
      <<".","e","n","v",".","*">>,
      <<".","e","n","v",".","l","o","c","a","l">>,
      <<".","e","s","l","i","n","t","r","c","*">>,
      <<".","g","i","t","a","t","t","r","i","b","u","t","e","s">>,
      <<".","g","i","t","i","g","n","o","r","e">>,
      <<".","p","r","e","t","t","i","e","r","r","c","*">>,
      <<".","s","t","y","l","e","l","i","n","t","r","c","*">>,
      <<"A","U","T","H","O","R","S","*">>,
      <<"C","H","A","N","G","E","L","O","G","*">>,
      <<"C","O","D","E","O","W","N","E","R","S">>,
      <<"C","O","N","T","R","I","B","U","T","I","N","G","*">>,
      <<"C","O","N","T","R","I","B","U","T","O","R","S","*">>,
      <<"C","O","P","Y","I","N","G","*">>,
      <<"C","a","r","g","o",".","l","o","c","k">>,
      <<"G","e","m","f","i","l","e",".","l","o","c","k">>,
      <<"L","I","C","E","N","S","E","*">>,
      <<"P","i","p","f","i","l","e",".","l","o","c","k">>,
      <<"S","E","C","U","R","I","T","Y","*">>,
      <<"T","h","u","m","b","s",".","d","b">>,
      <<"_","_","s","n","a","p","s","h","o","t","s","_","_","/","*">>,
      <<"c","o","m","p","o","s","e","r",".","l","o","c","k">>,
      <<"d","e","s","k","t","o","p",".","i","n","i">>,
      <<"f","i","x","t","u","r","e","s","/","*">>,
      <<"g","o",".","s","u","m">>,
      <<"l","l","m","_","c","o","n","t","e","x","t",".","t","x","t">>,
      <<"p","a","c","k","a","g","e","-","l","o","c","k",".","j","s","o","n">>,
      <<"p","n","p","m","-","l","o","c","k",".","y","a","m","l">>,
      <<"p","o","e","t","r","y",".","l","o","c","k">>,
      <<"t","e","s","t","s","/","_","_","o","u","t","p","u","t","_","_","/","*">>,
      <<"y","a","r","n",".","l","o","c","k">>
    }

\* ========================================================================
\* The working tree the selector runs on (what os.walk, os.path.isfile,
\* os.path.getsize and Path.resolve answer). Keys are paths relative to the
\* working directory; the working directory itself has the empty key.
\* ========================================================================
Cwd == <<"/","w">>

\* the module-level rule sets as the module body leaves them (lines 48-137)
ModuleDefaults ==
    [EXCLUDE_DIRS |-> EXCLUDE_DIRS, EXCLUDE_FILES |-> EXCLUDE_FILES,
     EXCLUDE_GLOBS |-> EXCLUDE_GLOBS, BINARY_EXTENSIONS |-> BINARY_EXTENSIONS]

SmallSize == 5
BigSize == 50

\* the lines of /w/.gitignore, as readlines() returns them without the newline
GitignoreText ==
    << <<"#"," ","b","u","i","l","d"," ","p","r","o","d","u","c","t","s">>,
       <<>>,
       <<"s","r","c","/">>,
       <<"*",".","f","o","o"," ">>,
       <<"d","o","c","s","/","a","p","i",".","t","x","t">>,
       <<"g","e","n","/","*",".","p","y">>,
       <<"!","m","a","i","n",".","p","y">> >>

\* directory listings, in the order os.walk returns them
FsDirs ==
    (<<>> :> [dirs |-> << <<"b","u","i","l","d">>, <<"s","r","c">> >>,
              files |-> << <<".","g","i","t","i","g","n","o","r","e">>, <<"T","h","u","m","b","s",".","d","b">>, <<"a",".","f","o","o">>, <<"a","p","p",".","l","o","g">>,
                           <<"b","i","g",".","p","y">>, <<"l","n","k",".","p","y">>, <<"m","a","i","n",".","p","y">> >>])
    @@ (<<"b","u","i","l","d">> :> [dirs |-> <<>>, files |-> << <<"o","u","t",".","p","y">> >>])
    @@ (<<"s","r","c">> :> [dirs |-> <<>>, files |-> << <<"u","t","i","l",".","p","y">> >>])

\* files: size in bytes, symlink target (empty when the file is no symlink), text
FsFiles ==
    (<<".","g","i","t","i","g","n","o","r","e">> :> [size |-> SmallSize, target |-> <<>>, text |-> GitignoreText])
    @@ (<<"T","h","u","m","b","s",".","d","b">> :> [size |-> SmallSize, target |-> <<>>, text |-> <<>>])
    @@ (<<"a",".","f","o","o">> :> [size |-> SmallSize, target |-> <<>>, text |-> <<>>])
    @@ (<<"a","p","p",".","l","o","g">> :> [size |-> SmallSize, target |-> <<>>, text |-> <<>>])
    @@ (<<"b","i","g",".","p","y">> :> [size |-> BigSize, target |-> <<>>, text |-> <<>>])
    @@ (<<"l","n","k",".","p","y">> :> [size |-> SmallSize, target |-> <<"s","r","c","/","u","t","i","l",".","p","y">>, text |-> <<>>])
    @@ (<<"m","a","i","n",".","p","y">> :> [size |-> BigSize, target |-> <<>>, text |-> <<>>])
    @@ (<<"b","u","i","l","d","/","o","u","t",".","p","y">> :> [size |-> SmallSize, target |-> <<>>, text |-> <<>>])
    @@ (<<"s","r","c","/","u","t","i","l",".","p","y">> :> [size |-> SmallSize, target |-> <<>>, text |-> <<>>])

\* the files open() refuses (permission denied); stat still answers for them
FsUnreadable == { <<"b","i","g",".","p","y">> }

CwdParts == Tail(PathParts(Cwd))

\* the key of path p: p relative to the working directory, normalised
RelKey(p) ==
    LET parts == PathParts(p)
    IN  IF IsAbsolute(p)
        THEN JoinSlash(SubSeq(parts, Len(CwdParts) + 2, Len(parts)))
        ELSE JoinSlash(parts)

ChildKey(key, name) == IF key = <<>> THEN name ELSE key \o <<"/">> \o name

\* os.path.isfile(p), os.path.isdir(p)
IsFile(p) == RelKey(p) \in DOMAIN FsFiles
IsDir(p) == RelKey(p) \in DOMAIN FsDirs

\* normalize_path: str(pathlib.Path(p).resolve()), symlinks followed
normalize_path(p) ==
    LET k == RelKey(p)
        t == IF k \in DOMAIN FsFiles /\ FsFiles[k].target # <<>> THEN FsFiles[k].target ELSE k
    IN  IF t = <<>> THEN Cwd ELSE Cwd \o <<"/">> \o t

\* get_file_size_safe: os.path.getsize, 0 on OSError
get_file_size_safe(p) ==
    LET k == RelKey(normalize_path(p))
    IN  IF k \in DOMAIN FsFiles THEN FsFiles[k].size ELSE 0

\* os.walk(top), top-down: the (root, key) of every directory visited, the
\* subdirectories named in exclude pruned before descent
RECURSIVE WalkRoots(_, _, _), WalkSubdirs(_, _, _, _)
WalkRoots(root, key, exclude) ==
    <<[root |-> root, key |-> key]>>
        \o WalkSubdirs(root, key, SelectSeq(FsDirs[key].dirs, LAMBDA d : d \notin exclude),
                       exclude)
WalkSubdirs(root, key, ds, exclude) ==
    IF ds = <<>> THEN <<>>
    ELSE WalkRoots(PathJoin(root, Head(ds)), ChildKey(key, Head(ds)), exclude)
            \o WalkSubdirs(root, key, Tail(ds), exclude)

OsWalk(top, exclude) ==
    IF IsDir(top) THEN WalkRoots(top, RelKey(top), exclude) ELSE <<>>

\* flattening of a sequence of sequences
RECURSIVE Flatten(_)
Flatten(ss) == IF ss = <<>> THEN <<>> ELSE Head(ss) \o Flatten(Tail(ss))

\* os.path.join(root, fname) for every file of every directory os.walk visits
WalkedFiles(top, exclude) ==
    LET visited == OsWalk(top, exclude)
    IN  Flatten([i \in 1 .. Len(visited) |->
                    [j \in 1 .. Len(FsDirs[visited[i].key].files) |->
                        PathJoin(visited[i].root, FsDirs[visited[i].key].files[j])]])

\* ========================================================================
\* Optional arguments: None, or a value
\* ========================================================================
None == [is_none |-> TRUE]
Some(v) == [is_none |-> FALSE, v |-> v]

\* truthiness of an optional list or string: not None and not empty
Truthy(opt) == ~opt.is_none /\ opt.v # <<>>

\* "opt or []"
OrEmpty(opt) == IF opt.is_none THEN <<>> ELSE opt.v

\* ========================================================================
\* Ignore files
\* ========================================================================

\* find_ignore_files_recursively: the ignore files found under the search paths
SearchDir(search_path) ==
    IF IsFile(search_path)
    THEN (IF Dirname(search_path) # <<>> THEN Dirname(search_path) ELSE <<".">>)
    ELSE search_path

find_ignore_files_recursively(search_paths) ==
    Flatten([i \in 1 .. Len(search_paths) |->
        LET visited == OsWalk(SearchDir(search_paths[i]), EXCLUDE_DIRS)
        IN  Flatten([j \in 1 .. Len(visited) |->
                SelectSeq([n \in 1 .. Len(IGNORE_FILES_TO_PARSE) |->
                              PathJoin(visited[j].root, IGNORE_FILES_TO_PARSE[n])],
                          IsFile)])])

\* line 398: if not line or line.startswith("#")
IsSkippedLine(line) == line = <<>> \/ StartsWith(line, <<"#">>)

\* line 402: if line.startswith("!")
\* a wrong variant, kept for comparison: a negation line is read as a rule
IsNegationLineNever(line) == FALSE

IsNegationLine(line) == StartsWith(line, <<"!">>)

\* the lines parse_ignore_file turns into rules: stripped, neither blank, nor a
\* comment, nor a negation
RuleLines(text) ==
    {l \in {Strip(text[i]) : i \in 1 .. Len(text)} :
        ~IsSkippedLine(l) /\ ~IsNegationLine(l)}

WellKnownDirs ==
    { <<"n","o","d","e","_","m","o","d","u","l","e","s">>, <<"d","i","s","t">>, <<"b","u","i","l","d">>, <<"_","_","p","y","c","a","c","h","e","_","_">>, <<".","g","i","t">>, <<"v","e","n","v">>, <<".","v","e","n","v">> }

is_directory_pattern(line) ==
    \/ EndsWith(line, <<"/">>)
    \/ ~HasChar(RStripSlash(line), "/")
    \/ RStripSlash(line) \in WellKnownDirs

\* what a directory line adds to dirs_to_exclude
DirRule(line) ==
    LET clean_pattern == RStripSlash(line)
    IN  IF HasChar(clean_pattern, "/") THEN Basename(clean_pattern) ELSE clean_pattern

\* what a file line adds to files_to_exclude
FileRule(line) ==
    LET clean_pattern == RStripSlash(line)
    IN  IF HasChar(clean_pattern, "*") \/ HasChar(clean_pattern, "?") THEN clean_pattern
        ELSE IF HasChar(clean_pattern, "/") THEN Basename(clean_pattern)
        ELSE clean_pattern

\* lines 394-441: (dirs_to_exclude, files_to_exclude) for a file of these lines
ParsedRules(text) ==
    LET rules == RuleLines(text)
    IN  [dirs |-> {DirRule(l) : l \in {r \in rules : is_directory_pattern(r)}},
         files |-> {FileRule(l) : l \in {r \in rules : ~is_directory_pattern(r)}}]

\* parse_ignore_file: (dirs_to_exclude, files_to_exclude)
parse_ignore_file(ignore_file_path) ==
    ParsedRules(FsFiles[RelKey(normalize_path(ignore_file_path))].text)

\* update_exclusions_from_ignore_files: the union over every ignore file found
update_exclusions_from_ignore_files(search_paths) ==
    LET found == find_ignore_files_recursively(search_paths)
    IN  [dirs |-> UNION {parse_ignore_file(found[i]).dirs : i \in 1 .. Len(found)},
         files |-> UNION {parse_ignore_file(found[i]).files : i \in 1 .. Len(found)}]

\* normalize_extensions: a leading dot is added when missing
normalize_extensions(exts) ==
    {IF StartsWith(e, <<".">>) THEN e ELSE <<".">> \o e : e \in Range(exts)}

\* ------------------------------------------------------------------------
\* the arguments the selector is called with
RootChoices == { <<".">>, <<"l","n","k",".","p","y">>, <<"b","u","i","l","d","/","o","u","t",".","p","y">>, <<"n","o","p","e">> }
ExtensionChoices == {None, Some(<< <<".","p","y">> >>), Some(<< <<".","f","o","o">>, <<".","d","b">> >>)}
MaxSizeChoices == {10, 1048576}
PriorityChoices ==
    {None, Some(<< <<"b","i","g",".","p","y">>, <<"b","u","i","l","d","/","o","u","t",".","p","y">>, <<"a","p","p",".","l","o","g">>, <<"a",".","f","o","o">>, <<"l","n","k",".","p","y">> >>)}
OutputChoices == {None, Some(<<"l","n","k",".","p","y">>)}
IgnoreFilesChoices == {None, Some(<< <<"m","a","i","n",".","p","y">> >>)}
IgnoreDirsChoices == {None, Some(<< <<"s","r","c">> >>)}
IgnoreExtChoices == {None, Some(<< <<"f","o","o">> >>), Some(<< <<".","f","o","o">> >>)}


\* ========================================================================
\* gather_files_enhanced
\* ========================================================================

\* should_exclude_file_enhanced, the pattern loop: one pattern against a file name
PatternExcludes(fname, pattern) ==
    IF StartsWith(pattern, <<"*">>) /\ EndsWith(pattern, <<"*">>)
    THEN Contains(fname, SubSeq(pattern, 2, Len(pattern) - 1))
    ELSE IF StartsWith(pattern, <<"*">>)
    THEN EndsWith(fname, Tail(pattern))
    ELSE IF EndsWith(pattern, <<"*">>)
    THEN StartsWith(fname, SubSeq(pattern, 1, Len(pattern) - 1))
    ELSE FnMatch(fname, pattern) \/ fname = pattern

\* should_exclude_file_enhanced(filepath): a suffix of the binary-extension set is
\* decided by the extension allow-list alone, before any pattern is tried
should_exclude_file_enhanced(filepath) ==
    LET fname == PathName(filepath)
        ext == Lower(PathSuffix(filepath))
    IN  IF ext \in combined_binary_extensions
        THEN ~extensions.is_none /\ ext \notin Range(extensions.v)
        ELSE \E pattern \in combined_exclude_files : PatternExcludes(fname, pattern)

\* is_excluded_enhanced, the glob loop: one pattern of EXCLUDE_GLOBS against a path
GlobExcludes(path_str, pattern) ==
    IF Contains(pattern, <<"*", "*">>)
    THEN Contains(path_str, Remove(Remove(pattern, <<"/", "*", "*">>), <<"*", "*", "/">>))
    ELSE FnMatch(path_str, pattern)

\* the glob loop as a whole: it reads nothing but the path and EXCLUDE_GLOBS
MatchesExcludeGlobs(path) ==
    \E pattern \in EXCLUDE_GLOBS : GlobExcludes(PathStr(path), pattern)

\* every path string the loops of gather_files_enhanced can examine in this tree,
\* and those of them the glob loop excludes (computed once)
CandidateUniverse ==
    RootChoices \cup UNION {Range(WalkedFiles(r, {})) : r \in RootChoices}

GlobExcludedCandidates == {p \in CandidateUniverse : MatchesExcludeGlobs(p)}

\* is_excluded_enhanced(path); the glob loop reads the module-level EXCLUDE_GLOBS
is_excluded_enhanced(path) ==
    \/ \E part \in Range(PathParts(path)) : part \in combined_exclude_dirs
    \/ IF module_globals.EXCLUDE_GLOBS = EXCLUDE_GLOBS
       THEN IF path \in CandidateUniverse THEN path \in GlobExcludedCandidates
            ELSE MatchesExcludeGlobs(path)
       ELSE \E pattern \in module_globals.EXCLUDE_GLOBS :
                GlobExcludes(PathStr(path), pattern)

\* a wrong variant, kept for comparison: the candidate is compared with the output path as it was given
IsOutputPathUnresolved(abs_path) == ~output_file.is_none /\ abs_path = output_file.v

\* if output_abs and abs_path == output_abs: continue
IsOutputPath(abs_path) == ~output_abs.is_none /\ abs_path = output_abs.v

\* if not extensions or any(fp.endswith(ext) for ext in extensions)
ExtensionAllowed(fp) ==
    \/ ~Truthy(extensions)
    \/ \E ext \in Range(extensions.v) : EndsWith(fp, ext)

\* a wrong variant, kept for comparison: no size ceiling
SizeAcceptedNoCeiling(fp) == TRUE

\* if abs_path in priority_set or file_size <= max_file_size
SizeAccepted(fp) ==
    \/ normalize_path(fp) \in priority_set
    \/ get_file_size_safe(fp) <= max_file_size

\* a wrong variant, kept for comparison: a priority path skips the exclusion rules as well as the size ceiling
CollectsPriorityFirst(fp) ==
    /\ ~IsOutputPath(normalize_path(fp))
    /\ \/ normalize_path(fp) \in priority_set
       \/ /\ ~is_excluded_enhanced(fp)
          /\ ~should_exclude_file_enhanced(fp)
          /\ ExtensionAllowed(fp)
          /\ get_file_size_safe(fp) <= max_file_size

\* the body of both loops: whether candidate fp is appended to collected
Collects(fp) ==
    /\ ~IsOutputPath(normalize_path(fp))
    /\ ~is_excluded_enhanced(fp)
    /\ ~should_exclude_file_enhanced(fp)
    /\ ExtensionAllowed(fp)
    /\ SizeAccepted(fp)

\* collected.append(abs_path) for every candidate that passes, in order
CollectedFrom(candidates) ==
    LET kept == SelectSeq(candidates, Collects)
    IN  [i \in 1 .. Len(kept) |-> normalize_path(kept[i])]

\* deduplicate_files: scan reversed(files), keep a path the first time it is seen,
\* return the kept ones reversed again
RECURSIVE DedupScan(_, _, _)
DedupScan(files, i, seen) ==
    IF i = 0 THEN <<>>
    ELSE IF normalize_path(files[i]) \in seen
         THEN DedupScan(files, i - 1, seen)
         ELSE <<files[i]>> \o DedupScan(files, i - 1, seen \cup {normalize_path(files[i])})

Reversed(s) == [i \in 1 .. Len(s) |-> s[Len(s) + 1 - i]]

\* a wrong variant, kept for comparison: the first occurrence of each path is the one kept
RECURSIVE DedupForward(_, _)
DedupForward(files, seen) ==
    IF files = <<>> THEN <<>>
    ELSE IF normalize_path(Head(files)) \in seen THEN DedupForward(Tail(files), seen)
    ELSE <<Head(files)>> \o DedupForward(Tail(files), seen \cup {normalize_path(Head(files))})
deduplicate_files_keep_first(files) == DedupForward(files, {})

deduplicate_files(files) == Reversed(DedupScan(files, Len(files), {}))

\* the orderer and the run of main while they are not running
OrderIdle ==
    /\ opc = "idle"
    /\ file_data = <<>>
    /\ oidx = 1
    /\ config_files = <<>>
    /\ entry_points = <<>>
    /\ core_files = <<>>
    /\ test_files = <<>>
    /\ binary_files = <<>>
    /\ ordered = <<>>

MainIdle ==
    /\ mpc = "idle"
    /\ args = None
    /\ main_files = <<>>
    /\ main_file_data = <<>>
    /\ analyzer_stats = None
    /\ trace = <<>>
    /\ raised = None
    /\ exit_status = None
    /\ artifact = None
    /\ stats = None

ParseIdle ==
    /\ ppc = "idle"
    /\ ignore_file = [readable |-> FALSE, text |-> <<>>]
    /\ pidx = 1
    /\ dirs_to_exclude = {}
    /\ files_to_exclude = {}
    /\ negation_patterns_found = <<>>

\* download_youtube.main while it is not running
DownloadIdle ==
    /\ dpc = "idle"
    /\ video_entries = <<>>
    /\ max_workers = 0
    /\ futures = <<>>
    /\ fpc = <<>>
    /\ lock = None
    /\ output_dir_exists = FALSE
    /\ makedirs_calls = <<>>
    /\ yielded = {}
    /\ caught = {}
    /\ uncaught = None

OrderFrame == UNCHANGED <<truncVars, gatherVars, mainVars, parseVars, downloadVars>>

\* what the selector leaves alone, and its variables while it is not running
GatherFrame == UNCHANGED <<truncVars, orderVars, mainVars, parseVars, downloadVars>>

GatherIdle ==
    /\ gpc = "idle"
    /\ paths = <<>>
    /\ extensions = None
    /\ max_file_size = 0
    /\ priority_files = None
    /\ output_file = None
    /\ respect_ignore_files = FALSE
    /\ ignore_files = None
    /\ ignore_dirs = None
    /\ ignore_ext = None
    /\ combined_exclude_dirs = {}
    /\ combined_exclude_files = {}
    /\ combined_binary_extensions = {}
    /\ priority_set = {}
    /\ output_abs = None
    /\ ridx = 1
    /\ collected = <<>>
    /\ discovered = <<>>
    /\ selected = <<>>
    /\ module_globals = ModuleDefaults
    /\ earlier = None

GatherInit ==
    /\ gpc = "setup"
    /\ paths \in SeqsUpTo(RootChoices, MaxRoots)
    /\ extensions \in ExtensionChoices
    /\ max_file_size \in MaxSizeChoices
    /\ priority_files \in PriorityChoices
    /\ output_file \in OutputChoices
    /\ respect_ignore_files \in BOOLEAN
    /\ ignore_files \in IgnoreFilesChoices
    /\ ignore_dirs \in IgnoreDirsChoices
    /\ ignore_ext \in IgnoreExtChoices
    /\ combined_exclude_dirs = {}
    /\ combined_exclude_files = {}
    /\ combined_binary_extensions = {}
    /\ priority_set = {}
    /\ output_abs = None
    /\ ridx = 1
    /\ collected = <<>>
    /\ discovered = <<>>
    /\ selected = <<>>
    /\ module_globals = ModuleDefaults
    /\ earlier = None

\* the locals of gather_files_enhanced as a call finds them
GatherEntry ==
    /\ gpc' = "setup"
    /\ module_globals' = module_globals
    /\ combined_exclude_dirs' = {}
    /\ combined_exclude_files' = {}
    /\ combined_binary_extensions' = {}
    /\ priority_set' = {}
    /\ output_abs' = None
    /\ ridx' = 1
    /\ collected' = <<>>
    /\ discovered' = <<>>
    /\ selected' = <<>>

\* a wrong variant, kept for comparison: combined_binary_extensions is BINARY_EXTENSIONS itself, not a copy,
\* so the extensions added for ignore_ext stay in the module-level set
GatherSetupSharedBinarySet ==
    /\ gpc = "setup"
    /\ LET additional == IF respect_ignore_files
                         THEN update_exclusions_from_ignore_files(paths)
                         ELSE [dirs |-> {}, files |-> {}]
           normalized_exts == IF Truthy(ignore_ext)
                              THEN normalize_extensions(ignore_ext.v) ELSE {}
       IN  /\ combined_exclude_dirs' =
                  module_globals.EXCLUDE_DIRS \cup additional.dirs
                      \cup (IF Truthy(ignore_dirs) THEN Range(ignore_dirs.v) ELSE {})
           /\ combined_exclude_files' =
                  module_globals.EXCLUDE_FILES \cup additional.files
                      \cup (IF Truthy(ignore_files) THEN Range(ignore_files.v) ELSE {})
                      \cup {<<"*">> \o ext : ext \in normalized_exts}
           /\ combined_binary_extensions' =
                  module_globals.BINARY_EXTENSIONS \cup normalized_exts
    /\ module_globals' =
          [module_globals EXCEPT !.BINARY_EXTENSIONS =
              @ \cup (IF Truthy(ignore_ext) THEN normalize_extensions(ignore_ext.v) ELSE {})]
    /\ priority_set' = {normalize_path(pf) : pf \in Range(OrEmpty(priority_files))}
    /\ output_abs' = IF Truthy(output_file) THEN Some(normalize_path(output_file.v)) ELSE None
    /\ gpc' = "roots"
    /\ UNCHANGED <<gatherArgs, ridx, collected, discovered, selected, earlier>>
    /\ GatherFrame

\* lines 832-863: the rule sets, the priority set and the output path are built
GatherSetup ==
    /\ gpc = "setup"
    /\ LET additional == IF respect_ignore_files
                         THEN update_exclusions_from_ignore_files(paths)
                         ELSE [dirs |-> {}, files |-> {}]
           normalized_exts == IF Truthy(ignore_ext)
                              THEN normalize_extensions(ignore_ext.v) ELSE {}
       IN  /\ combined_exclude_dirs' =
                  module_globals.EXCLUDE_DIRS \cup additional.dirs
                      \cup (IF Truthy(ignore_dirs) THEN Range(ignore_dirs.v) ELSE {})
           /\ combined_exclude_files' =
                  module_globals.EXCLUDE_FILES \cup additional.files
                      \cup (IF Truthy(ignore_files) THEN Range(ignore_files.v) ELSE {})
                      \cup {<<"*">> \o ext : ext \in normalized_exts}
           /\ combined_binary_extensions' =
                  module_globals.BINARY_EXTENSIONS \cup normalized_exts
    /\ module_globals' = module_globals
    /\ priority_set' = {normalize_path(pf) : pf \in Range(OrEmpty(priority_files))}
    /\ output_abs' = IF Truthy(output_file) THEN Some(normalize_path(output_file.v)) ELSE None
    /\ gpc' = "roots"
    /\ UNCHANGED <<gatherArgs, ridx, collected, discovered, selected, earlier>>
    /\ GatherFrame

\* lines 914-928: the next root is a file
GatherFileRoot ==
    /\ gpc = "roots"
    /\ ridx <= Len(paths)
    /\ IsFile(paths[ridx])
    /\ collected' = collected \o CollectedFrom(<<paths[ridx]>>)
    /\ discovered' = discovered \o <<paths[ridx]>>
    /\ ridx' = ridx + 1
    /\ UNCHANGED <<gpc, gatherArgs, gatherRules, selected, earlier>>
    /\ GatherFrame

\* lines 930-949: the next root is a directory, walked to the end
GatherDirRoot ==
    /\ gpc = "roots"
    /\ ridx <= Len(paths)
    /\ ~IsFile(paths[ridx])
    /\ IsDir(paths[ridx])
    /\ LET candidates == WalkedFiles(paths[ridx], combined_exclude_dirs)
       IN  /\ collected' = collected \o CollectedFrom(candidates)
           /\ discovered' = discovered \o candidates
    /\ ridx' = ridx + 1
    /\ UNCHANGED <<gpc, gatherArgs, gatherRules, selected, earlier>>
    /\ GatherFrame

\* the next root is neither a file nor a directory: nothing is collected
GatherMissingRoot ==
    /\ gpc = "roots"
    /\ ridx <= Len(paths)
    /\ ~IsFile(paths[ridx])
    /\ ~IsDir(paths[ridx])
    /\ ridx' = ridx + 1
    /\ UNCHANGED <<gpc, gatherArgs, gatherRules, collected, discovered, selected, earlier>>
    /\ GatherFrame

\* line 951: return deduplicate_files(collected)
GatherReturn ==
    /\ gpc = "roots"
    /\ ridx > Len(paths)
    /\ selected' = deduplicate_files(collected)
    /\ gpc' = "done"
    /\ UNCHANGED <<gatherArgs, gatherRules, ridx, collected, discovered, earlier>>
    /\ GatherFrame

GatherNext ==
    \/ GatherSetup
    \/ GatherFileRoot
    \/ GatherDirRoot
    \/ GatherMissingRoot
    \/ GatherReturn


\* ========================================================================
\* truncate_large_content_streaming
\* ========================================================================
LineTexts == {"a", "b"}

TruncFiles ==
    {[readable |-> r, text |-> t, eof_newline |-> n] :
        r \in BOOLEAN, t \in SeqsUpTo(LineTexts, MaxFileLines), n \in BOOLEAN}

\* f"... [TRUNCATED: {line_count - max_lines} lines omitted for brevity] ..."
TruncationMarker(omitted) ==
    "... [TRUNCATED: " \o ToString(omitted) \o " lines omitted for brevity] ..."

ReadErrorText == "# ERROR: Could not read file"

\* if line_count > max_lines: break
ScanBreaksOffByOne(count, limit) == count >= limit
ScanBreaks(count, limit) == count > limit

\* keep_start = max_lines // 2 ; keep_end = max_lines // 2
KeepStart(limit) == limit \div 2
KeepEnd(limit) == limit \div 2

\* if len(remaining_lines) > keep_end: remaining_lines[-keep_end:] else remaining_lines
EndLines(remaining, keep_end) ==
    IF Len(remaining) > keep_end THEN PySliceFrom(remaining, 0 - keep_end)
    ELSE remaining

\* lines[:keep_start] + [marker] + end_lines
TruncatedLines(head, count, limit, remaining) ==
    PyHead(head, KeepStart(limit))
        \o <<TruncationMarker(count - limit)>>
        \o EndLines(remaining, KeepEnd(limit))

\* what the truncator leaves alone, and its variables while it is not running
TruncFrame == UNCHANGED <<gatherVars, orderVars, mainVars, parseVars, downloadVars>>

TruncIdle ==
    /\ tpc = "idle"
    /\ tfile = [readable |-> FALSE, text |-> <<>>, eof_newline |-> FALSE]
    /\ max_lines = 0
    /\ fpos = 0
    /\ lines = <<>>
    /\ line_count = 0
    /\ remaining_lines = <<>>
    /\ content = <<>>
    /\ was_truncated = FALSE

TruncInit ==
    /\ tpc = "open"
    /\ tfile \in {f \in TruncFiles : f.text = <<>> => ~f.eof_newline}
    /\ max_lines \in 0 .. MaxMaxLines
    /\ fpos = 0
    /\ lines = <<>>
    /\ line_count = 0
    /\ remaining_lines = <<>>
    /\ content = <<>>
    /\ was_truncated = FALSE

\* open(filepath): success enters the first loop, failure reaches the except clause
TruncOpen ==
    /\ tpc = "open"
    /\ IF tfile.readable
       THEN /\ tpc' = "scan"
            /\ UNCHANGED <<content, was_truncated>>
       ELSE /\ tpc' = "done"
            /\ content' = <<ReadErrorText>>
            /\ was_truncated' = FALSE
    /\ UNCHANGED <<tfile, max_lines, fpos, lines, line_count, remaining_lines>>
    /\ TruncFrame

\* one iteration of the first loop: line.rstrip("\n") is appended, and the loop
\* breaks once line_count exceeds max_lines
TruncScanLine ==
    /\ tpc = "scan"
    /\ fpos < Len(tfile.text)
    /\ fpos' = fpos + 1
    /\ lines' = Append(lines, tfile.text[fpos + 1])
    /\ line_count' = line_count + 1
    /\ tpc' = IF ScanBreaks(line_count + 1, max_lines) THEN "rest" ELSE "scan"
    /\ UNCHANGED <<tfile, max_lines, remaining_lines, content, was_truncated>>
    /\ TruncFrame

\* the first loop ran out of lines: line_count <= max_lines, the whole file is returned
TruncReturnWhole ==
    /\ tpc = "scan"
    /\ fpos = Len(tfile.text)
    /\ tpc' = "done"
    /\ content' = lines
    /\ was_truncated' = FALSE
    /\ UNCHANGED <<tfile, max_lines, fpos, lines, line_count, remaining_lines>>
    /\ TruncFrame

\* one iteration of the second loop
TruncRestLine ==
    /\ tpc = "rest"
    /\ fpos < Len(tfile.text)
    /\ fpos' = fpos + 1
    /\ remaining_lines' = Append(remaining_lines, tfile.text[fpos + 1])
    /\ line_count' = line_count + 1
    /\ UNCHANGED <<tpc, tfile, max_lines, lines, content, was_truncated>>
    /\ TruncFrame

\* the second loop ran out of lines: head, marker and tail are returned
TruncReturnTruncated ==
    /\ tpc = "rest"
    /\ fpos = Len(tfile.text)
    /\ tpc' = "done"
    /\ content' = TruncatedLines(lines, line_count, max_lines, remaining_lines)
    /\ was_truncated' = TRUE
    /\ UNCHANGED <<tfile, max_lines, fpos, lines, line_count, remaining_lines>>
    /\ TruncFrame

TruncNext ==
    \/ TruncOpen
    \/ TruncScanLine
    \/ TruncReturnWhole
    \/ TruncRestLine
    \/ TruncReturnTruncated

InitTrunc == TruncInit /\ GatherIdle /\ OrderIdle /\ MainIdle /\ ParseIdle /\ DownloadIdle

SpecTrunc == InitTrunc /\ [][TruncNext]_vars

\* ------------------------------------------------------------------------
\* what the specification of the truncator says
FileLen == Len(tfile.text)
Half == max_lines \div 2
TruncReturned == tpc = "done" /\ tfile.readable

\* the last n lines of the file, n >= 0
FileTail(n) == SubSeq(tfile.text, FileLen - n + 1, FileLen)

\* C1: for a file of N > maxLines lines the returned body is the first
\* floor(maxLines/2) lines, one marker stating N - maxLines omitted lines, then at
\* most floor(maxLines/2) lines from the end of the file, and wasTruncated is true.
C1_TruncationExact ==
    (TruncReturned /\ FileLen > max_lines) =>
        /\ was_truncated
        /\ Len(content) >= Half + 1
        /\ SubSeq(content, 1, Half) = SubSeq(tfile.text, 1, Half)
        /\ content[Half + 1] = TruncationMarker(FileLen - max_lines)
        /\ Len(content) - Half - 1 <= Half
        /\ SubSeq(content, Half + 2, Len(content)) = FileTail(Len(content) - Half - 1)

\* C2: a readable file of N <= maxLines lines is returned whole, in order, without a
\* marker, and wasTruncated is true exactly when N > maxLines.
C2_NoTruncation ==
    TruncReturned =>
        /\ was_truncated <=> FileLen > max_lines
        /\ FileLen <= max_lines => content = tfile.text

C2_Witness ==
    /\ TruncReturned
    /\ FileLen = max_lines
    /\ FileLen >= 2
    /\ content = tfile.text
    /\ ~was_truncated

\* ========================================================================
\* parse_ignore_file, line by line
\* ========================================================================
MaxIgnoreLines == 3

\* the lines an ignore file is made of
IgnoreLineChoices ==
    { <<"#"," ","n","o","t","e">>, <<>>, <<"s","r","c","/">>, <<"*",".","f","o","o"," ">>, <<"d","o","c","s","/","a","p","i",".","t","x","t">>, <<"g","e","n","/","*",".","p","y">>,
      <<"!","d","o","c","s","/","a","p","i",".","t","x","t">>, <<" ","!","s","r","c","/">> }

IgnoreFileChoices ==
    [readable : BOOLEAN, text : SeqsUpTo(IgnoreLineChoices, MaxIgnoreLines)]

ParseFrame == UNCHANGED <<truncVars, gatherVars, orderVars, mainVars, downloadVars>>

ParseInit ==
    /\ ppc = "open"
    /\ ignore_file \in IgnoreFileChoices
    /\ pidx = 1
    /\ dirs_to_exclude = {}
    /\ files_to_exclude = {}
    /\ negation_patterns_found = <<>>

\* lines 387-392: the file is read; when it cannot be, the empty sets are returned
ParseOpen ==
    /\ ppc = "open"
    /\ ppc' = IF ignore_file.readable THEN "loop" ELSE "done"
    /\ UNCHANGED <<ignore_file, pidx, dirs_to_exclude, files_to_exclude,
                   negation_patterns_found>>
    /\ ParseFrame

\* line 395: line = line.strip()
CurrentLine == Strip(ignore_file.text[pidx])

\* lines 398-399: a blank line or a comment
ParseSkipLine ==
    /\ ppc = "loop"
    /\ pidx <= Len(ignore_file.text)
    /\ IsSkippedLine(CurrentLine)
    /\ pidx' = pidx + 1
    /\ UNCHANGED <<ppc, ignore_file, dirs_to_exclude, files_to_exclude,
                   negation_patterns_found>>
    /\ ParseFrame

\* lines 402-404: a negation line is noted for the warning and nothing else
ParseNegationLine ==
    /\ ppc = "loop"
    /\ pidx <= Len(ignore_file.text)
    /\ ~IsSkippedLine(CurrentLine)
    /\ IsNegationLine(CurrentLine)
    /\ negation_patterns_found' = Append(negation_patterns_found, CurrentLine)
    /\ pidx' = pidx + 1
    /\ UNCHANGED <<ppc, ignore_file, dirs_to_exclude, files_to_exclude>>
    /\ ParseFrame

\* lines 417-424: a directory pattern
ParseDirectoryLine ==
    /\ ppc = "loop"
    /\ pidx <= Len(ignore_file.text)
    /\ ~IsSkippedLine(CurrentLine)
    /\ ~IsNegationLine(CurrentLine)
    /\ is_directory_pattern(CurrentLine)
    /\ dirs_to_exclude' = dirs_to_exclude \cup {DirRule(CurrentLine)}
    /\ pidx' = pidx + 1
    /\ UNCHANGED <<ppc, ignore_file, files_to_exclude, negation_patterns_found>>
    /\ ParseFrame

\* lines 425-435: a file pattern
ParseFileLine ==
    /\ ppc = "loop"
    /\ pidx <= Len(ignore_file.text)
    /\ ~IsSkippedLine(CurrentLine)
    /\ ~IsNegationLine(CurrentLine)
    /\ ~is_directory_pattern(CurrentLine)
    /\ files_to_exclude' = files_to_exclude \cup {FileRule(CurrentLine)}
    /\ pidx' = pidx + 1
    /\ UNCHANGED <<ppc, ignore_file, dirs_to_exclude, negation_patterns_found>>
    /\ ParseFrame

\* lines 437-441: the loop is over, the two sets are returned
ParseReturn ==
    /\ ppc = "loop"
    /\ pidx > Len(ignore_file.text)
    /\ ppc' = "done"
    /\ UNCHANGED <<ignore_file, pidx, dirs_to_exclude, files_to_exclude,
                   negation_patterns_found>>
    /\ ParseFrame

ParseNext ==
    \/ ParseOpen
    \/ ParseSkipLine
    \/ ParseNegationLine
    \/ ParseDirectoryLine
    \/ ParseFileLine
    \/ ParseReturn

InitParse == ParseInit /\ TruncIdle /\ GatherIdle /\ OrderIdle /\ MainIdle /\ DownloadIdle

SpecParse == InitParse /\ [][ParseNext]_vars

\* ------------------------------------------------------------------------
\* what the specification of the ignore-file parser says
ParseReturned == ppc = "done"

\* the file with every line that starts with "!" taken out
WithoutNegationLines(text) == SelectSeq(text, LAMBDA l : ~StartsWith(Strip(l), <<"!">>))

\* the patterns the negation lines of the file name
NegatedPatterns(text) ==
    {Tail(Strip(text[i])) : i \in {j \in 1 .. Len(text) : StartsWith(Strip(text[j]), <<"!">>)}}

\* C18: parse_ignore_file returns for a file the pair (directory set, file set) it
\* returns for the file without its negation lines; a negation line adds no rule,
\* and the rule of a line that a negation line names stays in the result.
C18_NegationInert ==
    ParseReturned =>
        LET reduced == IF ignore_file.readable
                       THEN ParsedRules(WithoutNegationLines(ignore_file.text))
                       ELSE [dirs |-> {}, files |-> {}]
            named == {l \in RuleLines(ignore_file.text) :
                         l \in NegatedPatterns(ignore_file.text)}
        IN  /\ dirs_to_exclude = reduced.dirs
            /\ files_to_exclude = reduced.files
            /\ ignore_file.readable =>
                   \A l \in named :
                       IF is_directory_pattern(l) THEN DirRule(l) \in dirs_to_exclude
                       ELSE FileRule(l) \in files_to_exclude

\* a file with a rule line, a negation line that names it and a negation line
\* that names no rule, parsed to the end
C18_Witness ==
    /\ ParseReturned
    /\ ignore_file.readable
    /\ Len(negation_patterns_found) = 2
    /\ \E l \in RuleLines(ignore_file.text) : l \in NegatedPatterns(ignore_file.text)
    /\ \E l \in NegatedPatterns(ignore_file.text) : l \notin RuleLines(ignore_file.text)
    /\ dirs_to_exclude \cup files_to_exclude # {}

InitGather == GatherInit /\ TruncIdle /\ OrderIdle /\ MainIdle /\ ParseIdle /\ DownloadIdle

SpecGather == InitGather /\ [][GatherNext]_vars

\* ------------------------------------------------------------------------
\* what the specification of the selector says
GatherReturned == gpc = "done"

\* the elements of s at the positions after which they do not occur again
LastOccurrences(s) ==
    LET last == SelectSeq([i \in 1 .. Len(s) |-> i],
                          LAMBDA i : \A j \in (i + 1) .. Len(s) : s[j] # s[i])
    IN  [k \in 1 .. Len(last) |-> s[last[k]]]

\* one candidate's verdicts, filter by filter
DirectoryExcluded(fp) == is_excluded_enhanced(fp)
FilenameExcluded(fp) == should_exclude_file_enhanced(fp)
ExtensionRejected(fp) == ~ExtensionAllowed(fp)
EqualsOutput(fp) == Truthy(output_file) /\ normalize_path(fp) = normalize_path(output_file.v)
Rejected(fp) ==
    DirectoryExcluded(fp) \/ FilenameExcluded(fp) \/ ExtensionRejected(fp) \/ EqualsOutput(fp)
TooBig(fp) == get_file_size_safe(fp) > max_file_size

\* C3: the returned list holds each resolved path once; of a path collected several
\* times the last occurrence is the one kept, the kept paths are in the order of
\* those last occurrences, and every collected path is returned.
C3_Deduplication ==
    GatherReturned =>
        /\ \A i, j \in 1 .. Len(selected) :
              normalize_path(selected[i]) = normalize_path(selected[j]) => i = j
        /\ selected = LastOccurrences(collected)
        /\ Range(selected) = Range(collected)

C3_Witness ==
    /\ GatherReturned
    /\ \E i, j, k \in 1 .. Len(collected) :
          i < j /\ j < k /\ collected[i] = collected[k] /\ collected[i] # collected[j]
    /\ selected = LastOccurrences(collected)

\* C4: every returned path outside the priority set measures at most max_file_size,
\* and a priority path that passes the other filters is returned whatever its size.
C4_SizeCeiling ==
    GatherReturned =>
        /\ \A i \in 1 .. Len(selected) :
              selected[i] \notin priority_set => ~TooBig(selected[i])
        /\ \A fp \in Range(discovered) :
              (normalize_path(fp) \in priority_set /\ ~Rejected(fp))
                  => normalize_path(fp) \in Range(selected)

C4_Witness ==
    /\ GatherReturned
    /\ \E i \in 1 .. Len(selected) : selected[i] \in priority_set /\ TooBig(selected[i])
    /\ \E fp \in Range(discovered) :
          /\ ~Rejected(fp)
          /\ TooBig(fp)
          /\ normalize_path(fp) \notin priority_set
          /\ normalize_path(fp) \notin Range(selected)

C6_SelfInclusionGuard ==
    (GatherReturned /\ Truthy(output_file))
        => normalize_path(output_file.v) \notin Range(selected)

C6_Witness ==
    /\ GatherReturned
    /\ Truthy(output_file)
    /\ \E i \in 1 .. Len(paths) :
          /\ IsFile(paths[i])
          /\ EqualsOutput(paths[i])
          /\ ~DirectoryExcluded(paths[i]) /\ ~FilenameExcluded(paths[i])
          /\ ~ExtensionRejected(paths[i]) /\ ~TooBig(paths[i])
    /\ \E i \in 1 .. Len(paths), fp \in Range(discovered) :
          /\ IsDir(paths[i])
          /\ fp \in Range(WalkedFiles(paths[i], combined_exclude_dirs))
          /\ EqualsOutput(fp)
          /\ ~DirectoryExcluded(fp) /\ ~FilenameExcluded(fp)
          /\ ~ExtensionRejected(fp) /\ ~TooBig(fp)
    /\ selected # <<>>
    /\ normalize_path(output_file.v) \notin Range(selected)

\* C8: no returned file has a suffix equal to an extension given in ignore_ext,
\* written with or without its dot, with or without an extension allow-list.
C8_IgnoreExtExcludes ==
    (GatherReturned /\ Truthy(ignore_ext)) =>
        \A i \in 1 .. Len(selected) :
            PathSuffix(selected[i]) \notin normalize_extensions(ignore_ext.v)

\* the directories os.walk descends into below the directory roots of the call
DescendedDirs ==
    UNION {LET visited == OsWalk(paths[r], combined_exclude_dirs)
           IN  {visited[k].root : k \in 2 .. Len(visited)} : r \in 1 .. Len(paths)}

\* C16: no returned path has a segment equal to a directory name of the combined
\* rule set (the defaults, the directory lines of the ignore files, ignore_dirs), and
\* the walk of a directory root descends into no subdirectory with such a name.
C16_DirectoryExclusion ==
    GatherReturned =>
        /\ \A i \in 1 .. Len(selected) :
              \A part \in Range(PathParts(selected[i])) : part \notin combined_exclude_dirs
        /\ \A dir \in DescendedDirs : PathName(dir) \notin combined_exclude_dirs

\* a rule line that is a filename glob of the form *.<ext>
IsFilenameGlob(line) == StartsWith(line, <<"*",".">>) /\ ~HasChar(line, "/")

\* the filename globs among the rule lines of the ignore files the call parses
ParsedGlobLines ==
    IF respect_ignore_files
    THEN LET found == find_ignore_files_recursively(paths)
         IN  UNION {{l \in RuleLines(FsFiles[RelKey(normalize_path(found[i]))].text) :
                        IsFilenameGlob(l)} : i \in 1 .. Len(found)}
    ELSE {}

\* C17: no returned file has a name that matches a filename glob (a line such as
\* *.log, neither comment nor negation) of an ignore file the call parsed.
C17_IgnoreFileGlobs ==
    GatherReturned =>
        \A glob \in ParsedGlobLines :
            \A i \in 1 .. Len(selected) : ~FnMatch(PathName(selected[i]), glob)

\* the name of fp matches one of the stored filename patterns, in one of the five
\* ways the pattern loop tests
NameMatchesStoredPattern(fp) ==
    \E pattern \in combined_exclude_files : PatternExcludes(PathName(fp), pattern)

\* C23: a file whose name matches a stored filename pattern is rejected by
\* should_exclude_file_enhanced, whatever its extension and whether or not an
\* extension filter is given, and no path of such a name is in the result.
C23_FilenameExclusion ==
    GatherReturned =>
        /\ \A fp \in Range(discovered) :
              NameMatchesStoredPattern(fp) => should_exclude_file_enhanced(fp)
        /\ \A i \in 1 .. Len(selected) : ~NameMatchesStoredPattern(selected[i])

\* ------------------------------------------------------------------------
\* gather_files_enhanced called twice with the same arguments on the same tree
RegatherInit ==
    /\ GatherInit
    /\ extensions = None
    /\ max_file_size = 1024 * 1024
    /\ priority_files = None
    /\ output_file = None

\* the caller keeps the list returned and calls again with the same arguments
GatherCallAgain ==
    /\ gpc = "done"
    /\ earlier = None
    /\ earlier' = Some(selected)
    /\ GatherEntry
    /\ UNCHANGED gatherArgs
    /\ GatherFrame

RegatherNext ==
    \/ GatherNext
    \/ GatherCallAgain

InitRegather == RegatherInit /\ TruncIdle /\ OrderIdle /\ MainIdle /\ ParseIdle /\ DownloadIdle

SpecRegather == InitRegather /\ [][RegatherNext]_vars

\* the second call has returned
RegatherReturned == gpc = "done" /\ ~earlier.is_none

MonotoneInit ==
    /\ GatherInit
    /\ max_file_size = 1024 * 1024
    /\ priority_files = None
    /\ output_file = None

\* an optional list with one more entry
WithOneMore(opt, entry) == Some(OrEmpty(opt) \o <<entry>>)

\* the entries the second call adds
MoreIgnoreDirs == { <<"s","r","c">> }
MoreIgnoreFiles == { <<"b","i","g",".","p","y">> }
MoreIgnoreExt == { <<"l","o","g">>, <<"p","y">> }

\* the caller keeps the list returned; the locals of the next call are fresh
CallAgainKeeping ==
    /\ gpc = "done"
    /\ earlier = None
    /\ earlier' = Some(selected)
    /\ GatherEntry
    /\ UNCHANGED <<paths, extensions, max_file_size, priority_files, output_file,
                   respect_ignore_files>>
    /\ GatherFrame

GatherCallMoreDirs ==
    /\ CallAgainKeeping
    /\ \E d \in MoreIgnoreDirs : ignore_dirs' = WithOneMore(ignore_dirs, d)
    /\ UNCHANGED <<ignore_files, ignore_ext>>

GatherCallMoreFiles ==
    /\ CallAgainKeeping
    /\ \E f \in MoreIgnoreFiles : ignore_files' = WithOneMore(ignore_files, f)
    /\ UNCHANGED <<ignore_dirs, ignore_ext>>

GatherCallMoreExt ==
    /\ CallAgainKeeping
    /\ \E e \in MoreIgnoreExt : ignore_ext' = WithOneMore(ignore_ext, e)
    /\ UNCHANGED <<ignore_dirs, ignore_files>>

MonotoneNext ==
    \/ GatherNext
    \/ GatherCallMoreDirs
    \/ GatherCallMoreFiles
    \/ GatherCallMoreExt

InitMonotone == MonotoneInit /\ TruncIdle /\ OrderIdle /\ MainIdle /\ ParseIdle /\ DownloadIdle

SpecMonotone == InitMonotone /\ [][MonotoneNext]_vars

\* C26: the second call, made with one more entry in ignore_dirs, ignore_files or
\* ignore_ext and everything else the same, returns no path the first call did
\* not return.
C26_ExclusionMonotonicity ==
    (gpc = "done" /\ ~earlier.is_none) => Range(selected) \subseteq Range(earlier.v)

\* ========================================================================
\* Character order and list.sort
\* ========================================================================

\* the printable ASCII characters in code-point order, from " " (32) to "_" (95)
AsciiTo95 ==
    <<
       " ", "!", "\"", "#", "$", "%", "&", "'", "(", ")", "*", "+", ",", "-", ".", "/",
       "0", "1", "2", "3", "4", "5", "6", "7", "8", "9", ":", ";", "<", "=", ">", "?",
       "@", "A", "B", "C", "D", "E", "F", "G", "H", "I", "J", "K", "L", "M", "N", "O",
       "P", "Q", "R", "S", "T", "U", "V", "W", "X", "Y", "Z", "[", "\\", "]", "^", "_"
    >>

\* and from "a" (97) to "~" (126)
AsciiFrom97 ==
    <<
       "a", "b", "c", "d", "e", "f", "g", "h", "i", "j", "k", "l", "m", "n", "o", "p",
       "q", "r", "s", "t", "u", "v", "w", "x", "y", "z", "{", "|", "}", "~"
    >>

\* ord(c)
Ord(c) ==
    IF \E i \in 1 .. Len(AsciiTo95) : AsciiTo95[i] = c
    THEN 31 + (CHOOSE i \in 1 .. Len(AsciiTo95) : AsciiTo95[i] = c)
    ELSE 96 + (CHOOSE i \in 1 .. Len(AsciiFrom97) : AsciiFrom97[i] = c)

\* a < b on two str: lexicographic by code point
RECURSIVE StrLess(_, _)
StrLess(a, b) ==
    IF b = <<>> THEN FALSE
    ELSE IF a = <<>> THEN TRUE
    ELSE IF Head(a) = Head(b) THEN StrLess(Tail(a), Tail(b))
    ELSE Ord(Head(a)) < Ord(Head(b))

\* dict.get(key, default)
Get(d, key, default) == IF key \in DOMAIN d THEN d[key] ELSE default

\* The sort keys of the lists of (filepath, metadata): key(x) < key(y), or
\* key(x) > key(y) where the sort is called with reverse=True.
\* line 661: x[1]["priority_score"], reverse=True
ByScoreDescending(x, y) == x[2]["priority_score"] > y[2]["priority_score"]
\* line 662: os.path.basename(x[0])
ByBasename(x, y) == StrLess(Basename(x[1]), Basename(y[1]))
\* lines 663-665 and 1297: x[0]
\* a wrong variant, kept for comparison: the paths in descending order
ByPathDescending(x, y) == StrLess(y[1], x[1])

ByPath(x, y) == StrLess(x[1], y[1])
\* line 1299: x[1].get("size_bytes", 0), reverse=True
BySizeDescending(x, y) == Get(x[2], "size_bytes", 0) > Get(y[2], "size_bytes", 0)
\* line 1301: (x[1].get("file_type", ""), x[0])
ByTypeThenPath(x, y) ==
    LET tx == Get(x[2], "file_type", <<>>)
        ty == Get(y[2], "file_type", <<>>)
    IN  StrLess(tx, ty) \/ (tx = ty /\ StrLess(x[1], y[1]))

SortBefore(key, x, y) ==
    CASE key = "score" -> ByScoreDescending(x, y)
      [] key = "basename" -> ByBasename(x, y)
      [] key = "path" -> ByPath(x, y)
      [] key = "size" -> BySizeDescending(x, y)
      [] key = "type" -> ByTypeThenPath(x, y)

\* list.sort(key=...): a stable sort, elements with equal keys keep their order
StableSort(s, key) ==
    LET rank(i) == Cardinality({j \in 1 .. Len(s) :
                                   \/ SortBefore(key, s[j], s[i])
                                   \/ j < i /\ ~SortBefore(key, s[i], s[j])})
    IN  [k \in 1 .. Len(s) |-> s[CHOOSE i \in 1 .. Len(s) : rank(i) = k - 1]]


\* ========================================================================
\* FileAnalyzer
\* ========================================================================

\* FILE_TYPES: extension to type name
FILE_TYPES ==
    (<<".","p","y">> :> <<"p","y","t","h","o","n">>)
    @@ (<<".","j","s">> :> <<"j","a","v","a","s","c","r","i","p","t">>)
    @@ (<<".","t","s">> :> <<"t","y","p","e","s","c","r","i","p","t">>)
    @@ (<<".","j","s","x">> :> <<"j","s","x">>)
    @@ (<<".","t","s","x">> :> <<"t","s","x">>)
    @@ (<<".","j","a","v","a">> :> <<"j","a","v","a">>)
    @@ (<<".","c">> :> <<"c">>)
    @@ (<<".","c","p","p">> :> <<"c","p","p">>)
    @@ (<<".","c","c">> :> <<"c","p","p">>)
    @@ (<<".","c","x","x">> :> <<"c","p","p">>)
    @@ (<<".","h">> :> <<"c","-","h","e","a","d","e","r">>)
    @@ (<<".","h","p","p">> :> <<"c","p","p","-","h","e","a","d","e","r">>)
    @@ (<<".","c","s">> :> <<"c","s","h","a","r","p">>)
    @@ (<<".","g","o">> :> <<"g","o">>)
    @@ (<<".","r","s">> :> <<"r","u","s","t">>)
    @@ (<<".","r","b">> :> <<"r","u","b","y">>)
    @@ (<<".","p","h","p">> :> <<"p","h","p">>)
    @@ (<<".","s","w","i","f","t">> :> <<"s","w","i","f","t">>)
    @@ (<<".","k","t">> :> <<"k","o","t","l","i","n">>)
    @@ (<<".","s","c","a","l","a">> :> <<"s","c","a","l","a">>)
    @@ (<<".","r">> :> <<"r">>)
    @@ (<<".","m">> :> <<"m","a","t","l","a","b">>)
    @@ (<<".","l","u","a">> :> <<"l","u","a">>)
    @@ (<<".","p","e","r","l">> :> <<"p","e","r","l">>)
    @@ (<<".","p","l">> :> <<"p","e","r","l">>)
    @@ (<<".","s","h">> :> <<"b","a","s","h">>)
    @@ (<<".","b","a","s","h">> :> <<"b","a","s","h">>)
    @@ (<<".","z","s","h">> :> <<"z","s","h">>)
    @@ (<<".","f","i","s","h">> :> <<"f","i","s","h">>)
    @@ (<<".","p","s","1">> :> <<"p","o","w","e","r","s","h","e","l","l">>)
    @@ (<<".","b","a","t">> :> <<"b","a","t","c","h">>)
    @@ (<<".","c","m","d">> :> <<"b","a","t","c","h">>)
    @@ (<<".","h","t","m","l">> :> <<"h","t","m","l">>)
    @@ (<<".","h","t","m">> :> <<"h","t","m","l">>)
    @@ (<<".","c","s","s">> :> <<"c","s","s">>)
    @@ (<<".","s","c","s","s">> :> <<"s","c","s","s">>)
    @@ (<<".","s","a","s","s">> :> <<"s","a","s","s">>)
    @@ (<<".","l","e","s","s">> :> <<"l","e","s","s">>)
    @@ (<<".","v","u","e">> :> <<"v","u","e">>)
    @@ (<<".","s","v","e","l","t","e">> :> <<"s","v","e","l","t","e">>)
    @@ (<<".","x","m","l">> :> <<"x","m","l">>)
    @@ (<<".","j","s","o","n">> :> <<"j","s","o","n">>)
    @@ (<<".","y","a","m","l">> :> <<"y","a","m","l">>)
    @@ (<<".","y","m","l">> :> <<"y","a","m","l">>)
    @@ (<<".","t","o","m","l">> :> <<"t","o","m","l">>)
    @@ (<<".","i","n","i">> :> <<"i","n","i">>)
    @@ (<<".","c","f","g">> :> <<"c","o","n","f","i","g">>)
    @@ (<<".","c","o","n","f">> :> <<"c","o","n","f","i","g">>)
    @@ (<<".","p","r","o","p","e","r","t","i","e","s">> :> <<"p","r","o","p","e","r","t","i","e","s">>)
    @@ (<<".","m","d">> :> <<"m","a","r","k","d","o","w","n">>)
    @@ (<<".","r","s","t">> :> <<"r","e","s","t","r","u","c","t","u","r","e","d","t","e","x","t">>)
    @@ (<<".","a","d","o","c">> :> <<"a","s","c","i","i","d","o","c">>)
    @@ (<<".","t","e","x">> :> <<"l","a","t","e","x">>)
    @@ (<<".","s","q","l">> :> <<"s","q","l">>)
    @@ (<<".","g","r","a","p","h","q","l">> :> <<"g","r","a","p","h","q","l">>)
    @@ (<<".","g","q","l">> :> <<"g","r","a","p","h","q","l">>)
    @@ (<<".","d","o","c","k","e","r","f","i","l","e">> :> <<"d","o","c","k","e","r","f","i","l","e">>)
    @@ (<<".","m","a","k","e","f","i","l","e">> :> <<"m","a","k","e","f","i","l","e">>)
    @@ (<<".","c","m","a","k","e">> :> <<"c","m","a","k","e">>)
    @@ (<<".","g","r","a","d","l","e">> :> <<"g","r","a","d","l","e">>)
    @@ (<<".","m","a","v","e","n">> :> <<"m","a","v","e","n">>)

\* FILE_TYPES.get(pathlib.Path(filepath).suffix.lower(), "text")
FileTypeOf(filepath) ==
    LET ext == Lower(PathSuffix(filepath))
    IN  IF ext \in DOMAIN FILE_TYPES THEN FILE_TYPES[ext] ELSE <<"t","e","x","t">>

\* PRIORITY_PATTERNS. Each regular expression is a literal stem, an optional
\* ".*", an escaped dot, one of a few alternatives and "$".
PRIORITY_PATTERNS ==
    << [stem |-> <<"m","a","i","n">>, gap |-> FALSE,
        alts |-> {<<"p","y">>, <<"j","s">>, <<"t","s">>, <<"j","a","v","a">>, <<"c","p","p">>, <<"c">>, <<"g","o">>, <<"r","s">>}],
       [stem |-> <<"a","p","p">>, gap |-> FALSE, alts |-> {<<"p","y">>, <<"j","s">>, <<"t","s">>, <<"j","s","x">>, <<"t","s","x">>}],
       [stem |-> <<"i","n","d","e","x">>, gap |-> FALSE,
        alts |-> {<<"j","s">>, <<"t","s">>, <<"j","s","x">>, <<"t","s","x">>, <<"h","t","m","l">>}],
       [stem |-> <<"_","_","i","n","i","t","_","_">>, gap |-> FALSE, alts |-> {<<"p","y">>}],
       [stem |-> <<"s","e","t","u","p">>, gap |-> FALSE, alts |-> {<<"p","y">>, <<"c","f","g">>}],
       [stem |-> <<"r","e","q","u","i","r","e","m","e","n","t","s">>, gap |-> TRUE, alts |-> {<<"t","x","t">>}],
       [stem |-> <<"p","a","c","k","a","g","e">>, gap |-> FALSE, alts |-> {<<"j","s","o","n">>}],
       [stem |-> <<"p","y","p","r","o","j","e","c","t">>, gap |-> FALSE, alts |-> {<<"t","o","m","l">>}],
       [stem |-> <<"C","a","r","g","o">>, gap |-> FALSE, alts |-> {<<"t","o","m","l">>}],
       [stem |-> <<"g","o">>, gap |-> FALSE, alts |-> {<<"m","o","d">>}],
       [stem |-> <<"R","E","A","D","M","E">>, gap |-> FALSE, alts |-> {<<"m","d">>, <<"r","s","t">>, <<"t","x","t">>}],
       [stem |-> <<"c","o","n","f","i","g">>, gap |-> FALSE,
        alts |-> {<<"p","y">>, <<"j","s">>, <<"t","s">>, <<"j","s","o","n">>, <<"y","a","m","l">>, <<"y","m","l">>, <<"t","o","m","l">>}],
       [stem |-> <<"s","e","t","t","i","n","g","s">>, gap |-> FALSE,
        alts |-> {<<"p","y">>, <<"j","s">>, <<"t","s">>, <<"j","s","o","n">>, <<"y","a","m","l">>, <<"y","m","l">>}] >>

\* re.search(pattern, filename, re.IGNORECASE) for a pattern of PRIORITY_PATTERNS
PatternFound(pattern, filename) ==
    LET name == Lower(filename)
        stem == Lower(pattern.stem)
    IN  \E alt \in pattern.alts :
            LET ending == <<".">> \o Lower(alt)
            IN  IF pattern.gap
                THEN /\ EndsWith(name, ending)
                     /\ \E i \in 1 .. Len(name) :
                           /\ i + Len(stem) - 1 <= Len(name) - Len(ending)
                           /\ SubSeq(name, i, i + Len(stem) - 1) = stem
                ELSE EndsWith(name, stem \o ending)

\* is_binary_extension
is_binary_extension(filepath) == Lower(PathSuffix(filepath)) \in BINARY_EXTENSIONS

\* What opening and reading a file yields: whether it can be opened, whether
\* its first 8 KB hold a null byte or more than 30% non-text bytes, and the
\* numbers of newline characters, of words and of characters of its text.
TextProbe(newlines, words, chars) ==
    [readable |-> TRUE, binary |-> FALSE, newlines |-> newlines, words |-> words,
     chars |-> chars]
BinaryProbe == [readable |-> TRUE, binary |-> TRUE, newlines |-> 0, words |-> 0, chars |-> 0]
UnreadableProbe ==
    [readable |-> FALSE, binary |-> FALSE, newlines |-> 0, words |-> 0, chars |-> 0]

\* the files of the working tree are text, a run of four-letter words each on
\* its own line; a path that names no file, or a file open() refuses, cannot
\* be opened
ReadProbe(filepath) ==
    LET k == RelKey(normalize_path(filepath))
    IN  IF k \in DOMAIN FsFiles /\ k \notin FsUnreadable
        THEN TextProbe(FsFiles[k].size \div 5, FsFiles[k].size \div 5, FsFiles[k].size)
        ELSE UnreadableProbe

\* _is_binary_file: False when the file cannot be opened
is_binary_file(probe) == probe.readable /\ probe.binary

\* _is_config_file: the patterns that are plain substrings, then rc$, \..*rc$
config_patterns ==
    {<<"c","o","n","f","i","g">>, <<"s","e","t","t","i","n","g","s">>, <<".","e","n","v">>, <<".","i","n","i">>, <<".","c","f","g">>, <<".","t","o","m","l">>, <<".","y","a","m","l">>, <<".","y","m","l">>,
     <<".","j","s","o","n">>, <<".","p","r","o","p","e","r","t","i","e","s">>, <<".","c","o","n","f">>, <<"r","c",".">>}
is_config_file(filepath) ==
    LET filename == Lower(Basename(filepath))
    IN  \/ \E pattern \in config_patterns : Contains(filename, pattern)
        \/ EndsWith(filename, <<"r","c">>)
        \/ /\ EndsWith(filename, <<"r","c">>)
           /\ HasChar(SubSeq(filename, 1, Len(filename) - 2), ".")

\* _is_test_file: /tests?/ and /fixtures?/ written out
test_patterns ==
    {<<"t","e","s","t","_">>, <<"_","t","e","s","t",".">>, <<"/","t","e","s","t","/">>, <<"/","t","e","s","t","s","/">>, <<"s","p","e","c",".">>, <<"_","s","p","e","c",".">>, <<".","t","e","s","t",".">>,
     <<".","s","p","e","c",".">>, <<"/","f","i","x","t","u","r","e","/">>, <<"/","f","i","x","t","u","r","e","s","/">>, <<"/","_","_","t","e","s","t","s","_","_","/">>}
is_test_file(filepath) ==
    LET filepath_lower == Lower(filepath)
    IN  \E pattern \in test_patterns : Contains(filepath_lower, pattern)

\* _calculate_priority
RECURSIVE PatternScore(_, _)
PatternScore(filename, n) ==
    IF n = 0 THEN 0
    ELSE PatternScore(filename, n - 1)
            + (IF PatternFound(PRIORITY_PATTERNS[n], filename)
               THEN (Len(PRIORITY_PATTERNS) - (n - 1)) * 10 ELSE 0)
calculate_priority(filepath) ==
    LET filename == Lower(Basename(filepath))
    IN  PatternScore(filename, Len(PRIORITY_PATTERNS))
          + (IF \/ Contains(filepath, <<"/","s","r","c","/">>) \/ Contains(filepath, <<"/","l","i","b","/">>)
                \/ Contains(filepath, <<"/","c","o","r","e","/">>)
             THEN 5 ELSE 0)
          - (IF Contains(filepath, <<"/","t","e","s","t">>) \/ Contains(filepath, <<"/","_","_","t","e","s","t">>)
             THEN 5 ELSE 0)
          - (IF Contains(filepath, <<"/","d","o","c","s","/">>) \/ Contains(filepath, <<"/","d","o","c","u","m","e","n","t","a","t","i","o","n","/">>)
             THEN 3 ELSE 0)

\* FileAnalyzer.__init__: total_stats
NewTotalStats ==
    [total_files |-> 0, total_lines |-> 0, total_tokens |-> 0, binary_files |-> 0,
     text_files |-> 0]

\* the dictionary both binary branches return
BinaryMetadata(ext) ==
    [lines |-> 0, estimated_tokens |-> 0, is_binary |-> TRUE, is_config |-> FALSE,
     is_test |-> FALSE, priority_score |-> 0, file_type |-> <<"b","i","n","a","r","y">>, extension |-> ext]

\* a wrong variant, kept for comparison: a file that cannot be read is counted as a text file
analyze_file_counting_errors(total_stats, filepath, probe) ==
    LET ext == Lower(PathSuffix(filepath))
        file_type == FileTypeOf(filepath)
        file_lines == probe.newlines + 1
        estimated_tokens == (13 * probe.words + probe.chars) \div 20
    IN  IF is_binary_extension(filepath) \/ is_binary_file(probe)
        THEN [result |-> BinaryMetadata(ext),
              total_stats |->
                  [total_stats EXCEPT !.binary_files = total_stats.binary_files + 1]]
        ELSE IF ~probe.readable
        THEN [result |-> [error |-> "OSError", lines |-> 0, estimated_tokens |-> 0,
                          file_type |-> file_type, extension |-> ext],
              total_stats |->
                  [total_stats EXCEPT !.text_files = total_stats.text_files + 1,
                                      !.total_lines = total_stats.total_lines + 1]]
        ELSE [result |-> [lines |-> file_lines,
                          estimated_tokens |-> estimated_tokens,
                          is_config |-> is_config_file(filepath),
                          is_test |-> is_test_file(filepath),
                          priority_score |-> calculate_priority(filepath),
                          file_type |-> file_type,
                          extension |-> ext,
                          size_bytes |-> probe.chars],
              total_stats |->
                  [total_stats EXCEPT
                      !.text_files = total_stats.text_files + 1,
                      !.total_lines = total_stats.total_lines + file_lines,
                      !.total_tokens = total_stats.total_tokens + estimated_tokens]]

\* analyze_file: the dictionary returned, and total_stats as the call leaves it
analyze_file(total_stats, filepath, probe) ==
    LET ext == Lower(PathSuffix(filepath))
        file_type == FileTypeOf(filepath)
        file_lines == probe.newlines + 1
        estimated_tokens == (13 * probe.words + probe.chars) \div 20
    IN  IF is_binary_extension(filepath) \/ is_binary_file(probe)
        THEN [result |-> BinaryMetadata(ext),
              total_stats |->
                  [total_stats EXCEPT !.binary_files = total_stats.binary_files + 1]]
        ELSE IF ~probe.readable
        THEN [result |-> [error |-> "OSError", lines |-> 0, estimated_tokens |-> 0,
                          file_type |-> file_type, extension |-> ext],
              total_stats |-> total_stats]
        ELSE [result |-> [lines |-> file_lines,
                          estimated_tokens |-> estimated_tokens,
                          is_config |-> is_config_file(filepath),
                          is_test |-> is_test_file(filepath),
                          priority_score |-> calculate_priority(filepath),
                          file_type |-> file_type,
                          extension |-> ext,
                          size_bytes |-> probe.chars],
              total_stats |->
                  [total_stats EXCEPT
                      !.text_files = total_stats.text_files + 1,
                      !.total_lines = total_stats.total_lines + file_lines,
                      !.total_tokens = total_stats.total_tokens + estimated_tokens]]

\* ========================================================================
\* smart_file_ordering
\* ========================================================================
MaxRecords == 4

\* Records for the orderer: what analyze_file returns for a few paths, and two
\* dictionaries a caller may pass that analyze_file does not produce.
AnalyzedRecord(filepath, probe) ==
    <<filepath, analyze_file(NewTotalStats, filepath, probe).result>>
OrderRecords ==
    { AnalyzedRecord(<<"/","w","/","m","a","i","n",".","p","y">>, TextProbe(10, 10, 50)),
      AnalyzedRecord(<<"/","w","/","t","e","s","t","s","/","m","a","i","n",".","p","y">>, TextProbe(10, 10, 50)),
      AnalyzedRecord(<<"/","w","/","p","a","c","k","a","g","e",".","j","s","o","n">>, TextProbe(3, 3, 15)),
      AnalyzedRecord(<<"/","w","/","c","o","n","f","i","g",".","p","y">>, TextProbe(3, 3, 15)),
      AnalyzedRecord(<<"/","w","/","l","i","b","/","u","t","i","l",".","p","y">>, TextProbe(6, 6, 30)),
      AnalyzedRecord(<<"/","w","/","t","e","s","t","s","/","t","e","s","t","_","u","t","i","l",".","p","y">>, TextProbe(2, 2, 10)),
      AnalyzedRecord(<<"/","w","/","T","h","u","m","b","s",".","d","b">>, TextProbe(1, 1, 5)),
      AnalyzedRecord(<<"/","w","/","l","o","c","k","e","d",".","p","y">>, UnreadableProbe),
      AnalyzedRecord(<<"/","w","/","a","p","p","/","s","e","t","u","p",".","c","f","g">>, TextProbe(3, 3, 15)),
      <<<<"/","w","/","x","2","0",".","p","y">>,
        [lines |-> 1, estimated_tokens |-> 1, is_config |-> FALSE, is_test |-> TRUE,
         priority_score |-> 20, file_type |-> <<"p","y","t","h","o","n">>, extension |-> <<".","p","y">>,
         size_bytes |-> 5]>>,
      <<<<"/","w","/","b","l","o","b",".","c","f","g">>,
        [lines |-> 0, estimated_tokens |-> 0, is_binary |-> TRUE, is_config |-> TRUE,
         is_test |-> TRUE, priority_score |-> 90, file_type |-> <<"b","i","n","a","r","y">>,
         extension |-> <<".","c","f","g">>]>> }

\* the lists of at most MaxRecords records with no record twice
OrderInputs ==
    {s \in SeqsUpTo(OrderRecords, MaxRecords) :
        \A i, j \in 1 .. Len(s) : s[i] = s[j] => i = j}

\* line 653: metadata.get("priority_score", 0) > 20
\* a wrong variant, kept for comparison: the threshold itself counts
IsEntryPointFromThreshold(metadata) == Get(metadata, "priority_score", 0) >= 20

IsEntryPoint(metadata) == Get(metadata, "priority_score", 0) > 20

\* line 668: the returned concatenation
\* a wrong variant, kept for comparison: the config band ahead of the entry points
CombineConfigFirst(entry, config, core, test, binary) ==
    config \o entry \o core \o test \o binary

Combine(entry, config, core, test, binary) == entry \o config \o core \o test \o binary

OrderInit ==
    /\ opc = "loop"
    /\ file_data \in OrderInputs
    /\ oidx = 1
    /\ config_files = <<>>
    /\ entry_points = <<>>
    /\ core_files = <<>>
    /\ test_files = <<>>
    /\ binary_files = <<>>
    /\ ordered = <<>>

\* lines 648-658: one pass of the loop
OrderClassify ==
    /\ opc = "loop"
    /\ oidx <= Len(file_data)
    /\ LET record == file_data[oidx]
           metadata == record[2]
       IN  IF Get(metadata, "is_binary", FALSE)
           THEN /\ binary_files' = Append(binary_files, record)
                /\ UNCHANGED <<config_files, entry_points, test_files, core_files>>
           ELSE IF Get(metadata, "is_config", FALSE)
           THEN /\ config_files' = Append(config_files, record)
                /\ UNCHANGED <<binary_files, entry_points, test_files, core_files>>
           ELSE IF IsEntryPoint(metadata)
           THEN /\ entry_points' = Append(entry_points, record)
                /\ UNCHANGED <<binary_files, config_files, test_files, core_files>>
           ELSE IF Get(metadata, "is_test", FALSE)
           THEN /\ test_files' = Append(test_files, record)
                /\ UNCHANGED <<binary_files, config_files, entry_points, core_files>>
           ELSE /\ core_files' = Append(core_files, record)
                /\ UNCHANGED <<binary_files, config_files, entry_points, test_files>>
    /\ oidx' = oidx + 1
    /\ UNCHANGED <<opc, file_data, ordered>>
    /\ OrderFrame

\* lines 660-668: the bands are sorted and concatenated
OrderSortAndReturn ==
    /\ opc = "loop"
    /\ oidx > Len(file_data)
    /\ entry_points' = StableSort(entry_points, "score")
    /\ config_files' = StableSort(config_files, "basename")
    /\ core_files' = StableSort(core_files, "path")
    /\ test_files' = StableSort(test_files, "path")
    /\ binary_files' = StableSort(binary_files, "path")
    /\ ordered' = Combine(entry_points', config_files', core_files', test_files',
                          binary_files')
    /\ opc' = "done"
    /\ UNCHANGED <<file_data, oidx>>
    /\ OrderFrame

OrderNext == OrderClassify \/ OrderSortAndReturn

InitOrder == OrderInit /\ TruncIdle /\ GatherIdle /\ MainIdle /\ ParseIdle /\ DownloadIdle

SpecOrder == InitOrder /\ [][OrderNext]_vars

\* ------------------------------------------------------------------------
\* what the specification of the orderer says
OrderReturned == opc = "done"

BandNames == {"binary", "config", "entry", "test", "core"}

\* the records the loop has put in a band so far
BandRecords(band) ==
    CASE band = "binary" -> Range(binary_files)
      [] band = "config" -> Range(config_files)
      [] band = "entry" -> Range(entry_points)
      [] band = "test" -> Range(test_files)
      [] band = "core" -> Range(core_files)

Flagged(metadata, key) == key \in DOMAIN metadata /\ metadata[key] = TRUE
Score(metadata) == IF "priority_score" \in DOMAIN metadata THEN metadata["priority_score"] ELSE 0

\* the band of a record by the stated precedence
StatedBand(metadata) ==
    IF Flagged(metadata, "is_binary") THEN "binary"
    ELSE IF Flagged(metadata, "is_config") THEN "config"
    ELSE IF Score(metadata) > 20 THEN "entry"
    ELSE IF Flagged(metadata, "is_test") THEN "test"
    ELSE "core"

\* C9: every record the loop has passed is in exactly one of the five bands, the one
\* of the first test that holds in the precedence binary, config, entry point (score
\* above 20), test, core; the bands hold nothing else; a record flagged config is not
\* in the entry-point band whatever its score, nor is a record whose score is 20.
C9_BandAssignment ==
    /\ \A i \in 1 .. Len(file_data) :
          i < oidx =>
              /\ Cardinality({band \in BandNames : file_data[i] \in BandRecords(band)}) = 1
              /\ file_data[i] \in BandRecords(StatedBand(file_data[i][2]))
    /\ \A band \in BandNames :
          BandRecords(band) \subseteq {file_data[i] : i \in 1 .. (oidx - 1)}
    /\ Len(binary_files) + Len(config_files) + Len(entry_points) + Len(test_files)
          + Len(core_files) = oidx - 1
    /\ \A record \in Range(entry_points) :
          ~Flagged(record[2], "is_config") /\ Score(record[2]) # 20

C9_Witness ==
    /\ OrderReturned
    /\ \E record \in Range(config_files) : Score(record[2]) > 20
    /\ \E record \in Range(file_data) :
          Score(record[2]) = 20 /\ record \in Range(test_files)
    /\ \E record \in Range(entry_points) : Flagged(record[2], "is_test")
    /\ \E record \in Range(binary_files) : Flagged(record[2], "is_config")

\* the number of times record occurs in list s
Occurrences(s, record) == Cardinality({i \in 1 .. Len(s) : s[i] = record})

\* in list s every record of band first stands before every record of band second
BandPrecedes(s, first, second) ==
    \A i, j \in 1 .. Len(s) :
        (StatedBand(s[i][2]) = first /\ StatedBand(s[j][2]) = second) => i < j

\* C10: the returned list is a permutation of the argument, and in it the entry-point
\* records stand before the config records, those before the core records, those
\* before the test records and those before the binary records.
C10_BandConcatenation ==
    OrderReturned =>
        /\ Len(ordered) = Len(file_data)
        /\ \A record \in Range(file_data) \cup Range(ordered) :
              Occurrences(ordered, record) = Occurrences(file_data, record)
        /\ BandPrecedes(ordered, "entry", "config")
        /\ BandPrecedes(ordered, "config", "core")
        /\ BandPrecedes(ordered, "core", "test")
        /\ BandPrecedes(ordered, "test", "binary")

C10_Witness ==
    /\ OrderReturned
    /\ Len(file_data) = 4
    /\ StatedBand(file_data[1][2]) = "binary"
    /\ StatedBand(file_data[2][2]) = "test"
    /\ StatedBand(file_data[3][2]) = "config"
    /\ StatedBand(file_data[4][2]) = "entry"
    /\ ordered = <<file_data[4], file_data[3], file_data[2], file_data[1]>>

\* the positions of list s that hold the records of a band
BandPositions(s, band) == {i \in 1 .. Len(s) : StatedBand(s[i][2]) = band}

\* the records of a band stand in list s in ascending order of their full path
AscendingByPath(s, band) ==
    \A i, j \in BandPositions(s, band) : i < j => ~StrLess(s[j][1], s[i][1])

\* C11: in the returned list the records of the config band stand in ascending
\* alphabetical order of their full path.
C11_ConfigBandOrder == OrderReturned => AscendingByPath(ordered, "config")

\* the records of a band stand in list s in non-increasing order of priority_score
NonIncreasingByScore(s, band) ==
    \A i, j \in BandPositions(s, band) : i < j => Score(s[i][2]) >= Score(s[j][2])

\* C12: in the returned list the entry-point band is in non-increasing order of
\* priority_score, and the core, test and binary bands are each in ascending order
\* of full path, whatever the order in which the records were given.
C12_BandOrders ==
    OrderReturned =>
        /\ NonIncreasingByScore(ordered, "entry")
        /\ AscendingByPath(ordered, "core")
        /\ AscendingByPath(ordered, "test")
        /\ AscendingByPath(ordered, "binary")

\* two entry points given in rising score and two core records given in falling
\* path order, both pairs returned the other way round
C12_Witness ==
    /\ OrderReturned
    /\ Len(file_data) = 4
    /\ StatedBand(file_data[1][2]) = "core"
    /\ StatedBand(file_data[2][2]) = "entry"
    /\ StatedBand(file_data[3][2]) = "core"
    /\ StatedBand(file_data[4][2]) = "entry"
    /\ StrLess(file_data[3][1], file_data[1][1])
    /\ Score(file_data[2][2]) < Score(file_data[4][2])
    /\ ordered = <<file_data[4], file_data[2], file_data[3], file_data[1]>>

\* ========================================================================
\* main
\* ========================================================================

\* the command lines: -f, --ext, --sort, --no-toc and -o vary, the other options
\* are left at their defaults
SortChoices == {"priority", "alpha", "size", "type"}
ArgsChoices ==
    [folders : SeqsUpTo(RootChoices, MaxRoots) \ {<<>>},
     ext : ExtensionChoices,
     ignore_files : {None},
     ignore_dirs : {None},
     ignore_ext : {None},
     priority_files : {None},
     max_size : {1024 * 1024},
     max_lines : {1000},
     output : {<<"l","l","m","_","c","o","n","t","e","x","t",".","t","x","t">>, <<"o","u","t">>},
     no_toc : BOOLEAN,
     no_ignore : {FALSE},
     sort : SortChoices]

\* lines 1241-1245: the output name, ".txt" appended when it is missing
OUTPUT_FILE(output) == IF EndsWith(output, <<".","t","x","t">>) THEN output ELSE output \o <<".","t","x","t">>

\* def generate_enhanced_header(file_data, header_fmt): the parameters, none of them
\* with a default, no *args
generate_enhanced_header_params == <<"file_data", "header_fmt">>

\* line 1092: the positional arguments of the call in write_enhanced_output
HeaderCallArguments == <<"file_data", "header_fmt", "analyzer">>

\* a call with positional arguments only binds when there is one per parameter;
\* otherwise Python raises TypeError before the body runs
BindsPositional(params, arguments) == Len(arguments) = Len(params)

\* lines 676-789: the header is a fixed text of this many newlines; the file
\* data it is given only enters the two counts it never uses
HeaderNewlines == 121

\* the text of a file of the working tree, a four-letter word on each line
FileText(probe) == [i \in 1 .. probe.newlines |-> "word"]

\* lines 962-1001, the truncator as the function write_file_content calls: the
\* first loop stops at the first count that breaks, the rest is read by the second
truncate_large_content_streaming(text, readable, limit) ==
    IF ~readable
    THEN [content |-> <<ReadErrorText>>, was_truncated |-> FALSE]
    ELSE LET breaks == {c \in 1 .. Len(text) : ScanBreaks(c, limit)}
             scanned == IF breaks = {} THEN Len(text)
                        ELSE CHOOSE c \in breaks : \A d \in breaks : c <= d
         IN  IF breaks = {}
             THEN [content |-> text, was_truncated |-> FALSE]
             ELSE [content |-> TruncatedLines(SubSeq(text, 1, scanned), Len(text), limit,
                                              SubSeq(text, scanned + 1, Len(text))),
                   was_truncated |-> TRUE]

\* lines 1032-1037: out_file.write(content), and "\n" when content does not end
\* with one; content is the lines joined by "\n"
BodyLines(joined) ==
    IF joined = <<>> \/ joined = <<"">> THEN <<"">>
    ELSE IF joined[Len(joined)] = "" THEN SubSeq(joined, 1, Len(joined) - 1)
    ELSE joined

\* lines 1011-1016: the block of a binary record
BinaryBlock(rel_path, metadata) ==
    [written |->
         <<[kind |-> "<<< FILE: >>>", path |-> rel_path],
           [kind |-> "# Binary file", extension |-> Get(metadata, "extension", <<>>)],
           [kind |-> "<<< END FILE >>>"],
           [kind |-> "blank"]>>,
     lines_written |-> 4,
     was_truncated |-> FALSE]

\* lines 1018-1046: the block of any other record, shown being the lines of the
\* body as written
TextBlock(rel_path, metadata, shown, cut) ==
    [written |->
         <<[kind |-> "<<< FILE: >>>", path |-> rel_path],
           [kind |-> "# Type",
            file_type |-> Get(metadata, "file_type", <<"t","e","x","t">>),
            lines |-> Get(metadata, "lines", 0),
            tokens |-> Get(metadata, "estimated_tokens", 0)]>>
         \o [i \in 1 .. Len(shown) |-> [kind |-> "text", text |-> shown[i]]]
         \o <<[kind |-> "<<< END FILE >>>"], [kind |-> "blank"]>>,
     lines_written |-> 2 + Len(shown) + 2,
     was_truncated |-> cut]

\* lines 1031-1037: the body the truncator returns, written
RenderedBlock(rel_path, metadata, body) ==
    TextBlock(rel_path, metadata, BodyLines(body.content), body.was_truncated)

\* line 1031: the truncator called on the file as it is read
TruncatedBody(probe, max_lines_per_file) ==
    truncate_large_content_streaming(FileText(probe), probe.readable, max_lines_per_file)

\* lines 1004-1046: the lines written for one record, the count returned
write_file_content(filepath, metadata, max_lines_per_file) ==
    IF Get(metadata, "is_binary", FALSE)
    THEN BinaryBlock(RelKey(filepath), metadata)
    ELSE RenderedBlock(RelKey(filepath), metadata,
                       TruncatedBody(ReadProbe(filepath), max_lines_per_file))

\* lines 1049-1079: the table of contents, one row a record
write_table_of_contents(records) ==
    [written |->
         <<[kind |-> "### PROJECT STRUCTURE & ANALYSIS"], [kind |-> "rule"],
           [kind |-> "columns"], [kind |-> "separator"]>>
         \o [i \in 1 .. Len(records) |->
                [kind |-> "row", idx |-> i, path |-> RelKey(records[i][1])]]
         \o <<[kind |-> "rule"], [kind |-> "blank"]>>,
     lines_written |-> 4 + Len(records) + 2]

\* the sum of the numbers of a list
RECURSIVE Sum(_)
Sum(s) == IF s = <<>> THEN 0 ELSE Head(s) + Sum(Tail(s))

\* lines 1097-1129: what is written, section by section, and the counts returned,
\* toc and blocks being what the two writers gave; output_size, the size in bytes
\* of the file written, is left out
Assembled(records, include_toc, toc, blocks) ==
    [written |->
         <<[kind |-> "header"]>>
             \o (IF include_toc /\ Len(records) > 0
                 THEN <<[kind |-> "toc", lines |-> toc.written]>>
                 ELSE IF ~include_toc THEN <<[kind |-> "toc omitted"]>>
                 ELSE <<>>)
             \o [i \in 1 .. Len(records) |->
                    [kind |-> "block", path |-> records[i][1], lines |-> blocks[i].written]]
             \o <<[kind |-> "<<< END OF MERGED CONTEXT >>>"], [kind |-> "summary"]>>,
     stats |->
         [files_processed |-> Len(records),
          lines_written |->
              HeaderNewlines + 2
                  + (IF include_toc /\ Len(records) > 0 THEN toc.lines_written
                     ELSE IF ~include_toc THEN 2
                     ELSE 0)
                  + Sum([i \in 1 .. Len(blocks) |-> blocks[i].lines_written]) + 2,
          files_truncated |->
              Cardinality({i \in 1 .. Len(blocks) : blocks[i].was_truncated})]]

\* lines 1082-1129: write_enhanced_output once the header is made
write_enhanced_output(records, max_lines_per_file, include_toc) ==
    Assembled(records, include_toc, write_table_of_contents(records),
              [i \in 1 .. Len(records) |->
                  write_file_content(records[i][1], records[i][2], max_lines_per_file)])

MainInit ==
    /\ mpc = "start"
    /\ args \in ArgsChoices
    /\ main_files = <<>>
    /\ main_file_data = <<>>
    /\ analyzer_stats = NewTotalStats
    /\ trace = <<>>
    /\ raised = None
    /\ exit_status = None
    /\ artifact = None
    /\ stats = None

\* lines 1240-1266: the arguments are parsed and gather_files_enhanced is called
MainGatherCall ==
    /\ mpc = "start"
    /\ gpc = "idle"
    /\ GatherEntry
    /\ paths' = args.folders
    /\ extensions' = args.ext
    /\ max_file_size' = args.max_size
    /\ priority_files' = args.priority_files
    /\ output_file' = Some(OUTPUT_FILE(args.output))
    /\ respect_ignore_files' = ~args.no_ignore
    /\ ignore_files' = args.ignore_files
    /\ ignore_dirs' = args.ignore_dirs
    /\ ignore_ext' = args.ignore_ext
    /\ mpc' = "gather"
    /\ trace' = Append(trace, "select")
    /\ UNCHANGED <<args, main_files, main_file_data, analyzer_stats, raised, exit_status,
                   artifact, stats>>
    /\ UNCHANGED <<truncVars, orderVars, parseVars, downloadVars, earlier>>

\* lines 1268-1275: nothing was selected, main returns 1
\* a wrong variant, kept for comparison: the empty selection ends the run with status 0
MainNoFilesReturnsZero ==
    /\ mpc = "gather"
    /\ gpc = "done"
    /\ selected = <<>>
    /\ main_files' = selected
    /\ exit_status' = Some(0)
    /\ mpc' = "done"
    /\ UNCHANGED <<args, main_file_data, analyzer_stats, trace, raised, artifact, stats>>
    /\ UNCHANGED <<truncVars, gatherVars, orderVars, parseVars, downloadVars>>

MainNoFiles ==
    /\ mpc = "gather"
    /\ gpc = "done"
    /\ selected = <<>>
    /\ main_files' = selected
    /\ exit_status' = Some(1)
    /\ mpc' = "done"
    /\ UNCHANGED <<args, main_file_data, analyzer_stats, trace, raised, artifact, stats>>
    /\ UNCHANGED <<truncVars, gatherVars, orderVars, parseVars, downloadVars>>

\* lines 1256, 1277-1281: the selection is taken, the analysis begins
MainGathered ==
    /\ mpc = "gather"
    /\ gpc = "done"
    /\ selected # <<>>
    /\ main_files' = selected
    /\ main_file_data' = <<>>
    /\ analyzer_stats' = NewTotalStats
    /\ mpc' = "analyze"
    /\ trace' = Append(trace, "classify")
    /\ UNCHANGED <<args, raised, exit_status, artifact, stats>>
    /\ UNCHANGED <<truncVars, gatherVars, orderVars, parseVars, downloadVars>>

\* lines 1283-1291: one file is analysed, its file_type set again from FILE_TYPES
MainAnalyzeFile ==
    /\ mpc = "analyze"
    /\ Len(main_file_data) < Len(main_files)
    /\ LET filepath == main_files[Len(main_file_data) + 1]
           analysis == analyze_file(analyzer_stats, filepath, ReadProbe(filepath))
           metadata == [analysis.result EXCEPT !["file_type"] = FileTypeOf(filepath)]
       IN  /\ main_file_data' = Append(main_file_data, <<filepath, metadata>>)
           /\ analyzer_stats' = analysis.total_stats
    /\ UNCHANGED <<mpc, args, main_files, trace, raised, exit_status, artifact, stats>>
    /\ UNCHANGED <<truncVars, gatherVars, orderVars, parseVars, downloadVars>>

\* lines 1294-1295: smart_file_ordering is called
MainSortPriority ==
    /\ mpc = "analyze"
    /\ Len(main_file_data) = Len(main_files)
    /\ args.sort = "priority"
    /\ opc = "idle"
    /\ opc' = "loop"
    /\ file_data' = main_file_data
    /\ oidx' = 1
    /\ UNCHANGED <<config_files, entry_points, core_files, test_files, binary_files,
                   ordered>>
    /\ mpc' = "order"
    /\ trace' = Append(trace, "order")
    /\ UNCHANGED <<args, main_files, main_file_data, analyzer_stats, raised, exit_status,
                   artifact, stats>>
    /\ UNCHANGED <<truncVars, gatherVars, parseVars, downloadVars>>

\* line 1295: the ordered list replaces file_data
MainSortReturn ==
    /\ mpc = "order"
    /\ opc = "done"
    /\ main_file_data' = ordered
    /\ mpc' = "write"
    /\ UNCHANGED <<args, main_files, analyzer_stats, trace, raised, exit_status, artifact, stats>>
    /\ UNCHANGED <<truncVars, gatherVars, orderVars, parseVars, downloadVars>>

\* lines 1296-1301: the other orders sort file_data in place
MainSortInPlace ==
    /\ mpc = "analyze"
    /\ Len(main_file_data) = Len(main_files)
    /\ args.sort # "priority"
    /\ main_file_data' =
          CASE args.sort = "alpha" -> StableSort(main_file_data, "path")
            [] args.sort = "size" -> StableSort(main_file_data, "size")
            [] args.sort = "type" -> StableSort(main_file_data, "type")
    /\ mpc' = "write"
    /\ trace' = Append(trace, "order")
    /\ UNCHANGED <<args, main_files, analyzer_stats, raised, exit_status, artifact, stats>>
    /\ UNCHANGED <<truncVars, gatherVars, orderVars, parseVars, downloadVars>>

\* lines 1306-1337 and 1082-1129: write_enhanced_output is called. Its first
\* statement calls generate_enhanced_header; when that call does not bind, the
\* TypeError leaves write_enhanced_output and main, nothing is opened, and the
\* interpreter ends with status 1. Otherwise the output is written, the counts
\* are returned, the summary is printed and main returns 0.
MainWriteOutput ==
    /\ mpc = "write"
    /\ trace' = Append(trace, "assemble")
    /\ IF BindsPositional(generate_enhanced_header_params, HeaderCallArguments)
       THEN LET out == write_enhanced_output(main_file_data, args.max_lines,
                                             ~args.no_toc)
            IN  /\ artifact' = Some(out.written)
                /\ stats' = Some(out.stats)
            /\ exit_status' = Some(0)
            /\ raised' = None
       ELSE /\ raised' = Some("TypeError")
            /\ exit_status' = Some(1)
            /\ UNCHANGED <<artifact, stats>>
    /\ mpc' = "done"
    /\ UNCHANGED <<args, main_files, main_file_data, analyzer_stats>>
    /\ UNCHANGED <<truncVars, gatherVars, orderVars, parseVars, downloadVars>>

MainNext ==
    \/ MainGatherCall
    \/ GatherNext
    \/ MainNoFiles
    \/ MainGathered
    \/ MainAnalyzeFile
    \/ MainSortPriority
    \/ OrderNext
    \/ MainSortReturn
    \/ MainSortInPlace
    \/ MainWriteOutput

InitMain == MainInit /\ TruncIdle /\ GatherIdle /\ OrderIdle /\ ParseIdle /\ DownloadIdle

SpecMain == InitMain /\ [][MainNext]_vars

\* ------------------------------------------------------------------------
\* what the specification of the run says
MainDone == mpc = "done"

\* C7: a run whose selection returned at least one path went through select,
\* classify, order and assemble in that order and ends with the artifact written
\* (header, one block per record, trailer), the summary returned by
\* write_enhanced_output, and exit status 0.
C7_RunCompletion ==
    (MainDone /\ main_files # <<>>) =>
        /\ trace = <<"select", "classify", "order", "assemble">>
        /\ ~artifact.is_none
        /\ artifact.v[1].kind = "header"
        /\ Cardinality({i \in 1 .. Len(artifact.v) : artifact.v[i].kind = "block"})
              = Len(main_file_data)
        /\ \E i \in 1 .. Len(artifact.v) :
              artifact.v[i].kind = "<<< END OF MERGED CONTEXT >>>"
        /\ ~stats.is_none
        /\ exit_status = Some(0)

\* write_enhanced_output was called and the run is over
AssembleEnded == MainDone /\ "assemble" \in Range(trace)

\* the lines of a block that is not binary: start marker with the relative path, one
\* metadata line, the body, end marker, blank line
TextBlockShape(block_lines, filepath) ==
    LET m == Len(block_lines)
    IN  /\ m >= 4
        /\ block_lines[1] = [kind |-> "<<< FILE: >>>", path |-> RelKey(filepath)]
        /\ block_lines[2].kind = "# Type"
        /\ \A i \in 3 .. (m - 2) : block_lines[i].kind = "text"
        /\ block_lines[m - 1].kind = "<<< END FILE >>>"
        /\ block_lines[m].kind = "blank"

\* C13: when write_enhanced_output has run, the output holds, in this order, the
\* header, the optional table of contents, one block for each record in the order
\* of the record list, and the trailer; and each block of a record that is not
\* binary is the start marker line with the relative path, one metadata line, the
\* body, the end marker line and one blank line.
C13_BlockSequence ==
    AssembleEnded =>
        /\ ~artifact.is_none
        /\ LET sections == artifact.v
               n == Len(main_file_data)
               t == Len(sections) - n - 3
           IN  /\ t \in {0, 1}
               /\ sections[1].kind = "header"
               /\ t = 1 => sections[2].kind \in {"toc", "toc omitted"}
               /\ \A i \in 1 .. n :
                     /\ sections[1 + t + i].kind = "block"
                     /\ sections[1 + t + i].path = main_file_data[i][1]
                     /\ ~Get(main_file_data[i][2], "is_binary", FALSE) =>
                            TextBlockShape(sections[1 + t + i].lines, main_file_data[i][1])
               /\ sections[n + t + 2].kind = "<<< END OF MERGED CONTEXT >>>"
               /\ sections[n + t + 3].kind = "summary"

\* the lines of the output one after the other; the header stands for its lines,
\* none of which is a delimiter token
RECURSIVE ArtifactLines(_)
ArtifactLines(sections) ==
    IF sections = <<>> THEN <<>>
    ELSE LET section == Head(sections)
         IN  (IF section.kind \in {"toc", "block"} THEN section.lines
              ELSE IF section.kind = "toc omitted" THEN <<section, [kind |-> "blank"]>>
              ELSE <<section>>)
             \o ArtifactLines(Tail(sections))

\* a line that reads as a delimiter token, written as one or part of a body
IsStartLine(line) == line.kind = "<<< FILE: >>>"
IsEndLine(line) ==
    line.kind = "<<< END FILE >>>" \/ (line.kind = "text" /\ line.text = "<<< END FILE >>>")
IsTrailerLine(line) ==
    \/ line.kind = "<<< END OF MERGED CONTEXT >>>"
    \/ (line.kind = "text" /\ line.text = "<<< END OF MERGED CONTEXT >>>")

\* the positions of the lines of list s that satisfy one of the three tests
StartMarkerLines(s) == {i \in 1 .. Len(s) : IsStartLine(s[i])}
EndMarkerLines(s) == {i \in 1 .. Len(s) : IsEndLine(s[i])}
TrailerLines(s) == {i \in 1 .. Len(s) : IsTrailerLine(s[i])}

\* C14: splitting the written output at the delimiter lines recovers the record
\* sequence: there are as many end marker lines as records, start and end markers
\* alternate strictly, the k-th start marker names the k-th record, and there is
\* exactly one END OF MERGED CONTEXT line, after the last block.
C14_UnambiguousReparsing ==
    AssembleEnded =>
        /\ ~artifact.is_none
        /\ LET s == ArtifactLines(artifact.v)
               n == Len(main_file_data)
               before(set, i) == Cardinality({j \in set : j < i})
           IN  /\ Cardinality(EndMarkerLines(s)) = n
               /\ Cardinality(StartMarkerLines(s)) = n
               /\ \A i \in StartMarkerLines(s) :
                     /\ before(EndMarkerLines(s), i) = before(StartMarkerLines(s), i)
                     /\ s[i].path = RelKey(main_file_data[before(StartMarkerLines(s), i) + 1][1])
               /\ \A i \in EndMarkerLines(s) :
                     before(StartMarkerLines(s), i) = before(EndMarkerLines(s), i) + 1
               /\ Cardinality(TrailerLines(s)) = 1
               /\ \A i \in TrailerLines(s) : \A j \in EndMarkerLines(s) : j < i

\* the records of list s that stand for path
RecordsOf(s, path) == {i \in 1 .. Len(s) : s[i][1] = path}

\* the block written for a binary record: start marker, the placeholder line that
\* names the extension, end marker, and the blank line that closes every block
BinaryBlockShape(block_lines, filepath) ==
    block_lines =
        <<[kind |-> "<<< FILE: >>>", path |-> RelKey(filepath)],
          [kind |-> "# Binary file", extension |-> Lower(PathSuffix(filepath))],
          [kind |-> "<<< END FILE >>>"],
          [kind |-> "blank"]>>

\* C15: with no extension filter a file with a binary suffix that no directory rule,
\* size ceiling or output guard rejects is selected; it gets exactly one record,
\* with is_binary true, lines 0, estimated_tokens 0, is_config and is_test false and
\* priority_score 0; and at assembly its block is the start marker, one placeholder
\* line naming the extension and the end marker, with no line of the file's content.
C15_BinaryRecords ==
    /\ (gpc = "done" /\ extensions.is_none) =>
           \A i \in 1 .. Len(discovered) :
               (/\ is_binary_extension(discovered[i])
                /\ ~DirectoryExcluded(discovered[i])
                /\ ~EqualsOutput(discovered[i])
                /\ ~TooBig(discovered[i])) =>
                   normalize_path(discovered[i]) \in Range(selected)
    /\ (mpc \in {"write", "done"} /\ main_files # <<>> /\ args.ext.is_none) =>
           \A path \in Range(main_files) :
               is_binary_extension(path) =>
                   /\ Cardinality(RecordsOf(main_file_data, path)) = 1
                   /\ \A i \in RecordsOf(main_file_data, path) :
                         LET metadata == main_file_data[i][2]
                         IN  /\ Get(metadata, "is_binary", FALSE)
                             /\ metadata.lines = 0
                             /\ metadata.estimated_tokens = 0
                             /\ ~metadata.is_config
                             /\ ~metadata.is_test
                             /\ metadata.priority_score = 0
    /\ (AssembleEnded /\ args.ext.is_none) =>
           \A path \in Range(main_files) :
               is_binary_extension(path) =>
                   /\ ~artifact.is_none
                   /\ \E i \in 1 .. Len(artifact.v) :
                          /\ artifact.v[i].kind = "block"
                          /\ artifact.v[i].path = path
                          /\ BinaryBlockShape(artifact.v[i].lines, path)

\* C19: when the selection returns no path, main ends with a status other than 0
\* and has neither classified, nor ordered, nor assembled: the only stage entered
\* is the selection, no record exists, the orderer never ran, and the output file
\* was never opened.
C19_ConfigurationError ==
    (gpc = "done" /\ selected = <<>> /\ mpc \in {"gather", "done"}) =>
        /\ trace = <<"select">>
        /\ main_file_data = <<>>
        /\ opc = "idle"
        /\ artifact = None
        /\ stats = None
        /\ MainDone => (~exit_status.is_none /\ exit_status.v # 0)

\* a run over a root that does not exist and a file that the rules reject
C19_Witness ==
    /\ MainDone
    /\ main_files = <<>>
    /\ discovered # <<>>
    /\ \E i \in 1 .. Len(paths) : ~IsFile(paths[i]) /\ ~IsDir(paths[i])
    /\ exit_status = Some(1)

\* the records whose body the truncator cut, by the call's max_lines
TruncatedRecords ==
    {i \in 1 .. Len(main_file_data) :
        /\ ~Get(main_file_data[i][2], "is_binary", FALSE)
        /\ ReadProbe(main_file_data[i][1]).readable
        /\ Len(FileText(ReadProbe(main_file_data[i][1]))) > args.max_lines}

\* C20: the summary write_enhanced_output returns has files_processed equal to the
\* number of records it was given, binary and unreadable ones included, and
\* files_truncated equal to the number of records whose body was cut, so that
\* files_truncated <= files_processed and no binary record counts as truncated.
C20_RunSummary ==
    AssembleEnded =>
        /\ ~stats.is_none
        /\ stats.v.files_processed = Len(main_file_data)
        /\ stats.v.files_truncated = Cardinality(TruncatedRecords)
        /\ stats.v.files_truncated <= stats.v.files_processed

\* opening the file for reading fails in analyze_file, after both binary tests
ReadFails(filepath) ==
    /\ ~is_binary_extension(filepath)
    /\ ~ReadProbe(filepath).readable

\* the paths analysed so far, in the order of the selection
AnalysedPaths == SubSeq(main_files, 1, Len(main_file_data))

\* the totals an analyzer reaches on a list of paths, one call after the other
RECURSIVE TotalsOver(_)
TotalsOver(files) ==
    IF files = <<>> THEN NewTotalStats
    ELSE analyze_file(TotalsOver(SubSeq(files, 1, Len(files) - 1)), files[Len(files)],
                      ReadProbe(files[Len(files)])).total_stats

\* the classification loop is over
ClassifyEnded == mpc \in {"order", "write", "done"} /\ "classify" \in Range(trace)

\* C21: a file whose reading fails in analyze_file gets a record with an error
\* field, lines = 0 and estimated_tokens = 0; the analyzer's totals are those of
\* the other files alone; and every selected path has its record, so there are
\* as many records as selected paths once the loop is over.
C21_ClassificationIsolation ==
    /\ \A i \in 1 .. Len(main_file_data) :
          ReadFails(main_file_data[i][1]) =>
              /\ "error" \in DOMAIN main_file_data[i][2]
              /\ main_file_data[i][2].lines = 0
              /\ main_file_data[i][2].estimated_tokens = 0
    /\ mpc = "analyze" =>
          /\ analyzer_stats = TotalsOver(SelectSeq(AnalysedPaths, LAMBDA f : ~ReadFails(f)))
          /\ \A i \in 1 .. Len(main_file_data) : main_file_data[i][1] = main_files[i]
    /\ ClassifyEnded =>
          /\ analyzer_stats = TotalsOver(SelectSeq(main_files, LAMBDA f : ~ReadFails(f)))
          /\ Len(main_file_data) = Len(main_files)
          /\ {main_file_data[i][1] : i \in 1 .. Len(main_file_data)} = Range(main_files)

\* a run classified a file that could not be read and, after it, another file
C21_Witness ==
    /\ ClassifyEnded
    /\ \E i \in 1 .. Len(main_files) :
          /\ ReadFails(main_files[i])
          /\ i < Len(main_files)
          /\ ~ReadFails(main_files[Len(main_files)])
    /\ analyzer_stats.text_files >= 1

\* the lines of the block of a record whose file could not be read: the two
\* marker lines around the metadata line and the one inline error line
ErrorBlockShape(block_lines, filepath) ==
    /\ Len(block_lines) = 5
    /\ block_lines[1] = [kind |-> "<<< FILE: >>>", path |-> RelKey(filepath)]
    /\ block_lines[2].kind = "# Type"
    /\ block_lines[3] = [kind |-> "text", text |-> ReadErrorText]
    /\ block_lines[4].kind = "<<< END FILE >>>"
    /\ block_lines[5].kind = "blank"

\* the records whose file cannot be opened when write_file_content reads it
UnreadableRecords ==
    {i \in 1 .. Len(main_file_data) :
        /\ ~Get(main_file_data[i][2], "is_binary", FALSE)
        /\ ~ReadProbe(main_file_data[i][1]).readable}

\* the positions in the output of the sections that are blocks of path
BlockSections(path) ==
    IF artifact.is_none THEN {}
    ELSE {k \in 1 .. Len(artifact.v) :
             artifact.v[k].kind = "block" /\ artifact.v[k].path = path}

\* C24: when write_enhanced_output has run over a record whose file cannot be
\* read, the output holds that record's block, delimited by its start and end
\* markers with the inline "# ERROR: Could not read file" line for body; the
\* record is not counted as truncated; the block of every later record and the
\* trailer follow it in the output.
C24_AssemblyErrorIsolation ==
    AssembleEnded =>
        \A i \in UnreadableRecords :
            /\ ~artifact.is_none
            /\ \E k \in BlockSections(main_file_data[i][1]) :
                  /\ ErrorBlockShape(artifact.v[k].lines, main_file_data[i][1])
                  /\ \A j \in (i + 1) .. Len(main_file_data) :
                        \E l \in BlockSections(main_file_data[j][1]) : l > k
                  /\ \E l \in (k + 1) .. Len(artifact.v) :
                        artifact.v[l].kind = "<<< END OF MERGED CONTEXT >>>"
            /\ ~stats.is_none
            /\ stats.v.files_truncated = Cardinality(TruncatedRecords)

\* the dictionary analyze_file returns for filepath in this tree
ReturnedByAnalyzeFile(filepath) ==
    analyze_file(NewTotalStats, filepath, ReadProbe(filepath)).result

\* C25: every record held by main, before, during and after ordering and
\* assembly, has in every field the value analyze_file returned for its path;
\* a record classified as binary has file_type = "binary".
C25_RecordImmutability ==
    \A i \in 1 .. Len(main_file_data) :
        /\ main_file_data[i][2] = ReturnedByAnalyzeFile(main_file_data[i][1])
        /\ Get(main_file_data[i][2], "is_binary", FALSE) =>
              main_file_data[i][2].file_type = <<"b","i","n","a","r","y">>

\* the number of newline characters of the file the truncator was given: one
\* between two lines, one more when the last line ends with one
NewlineCount(file) ==
    IF file.text = <<>> THEN 0
    ELSE Len(file.text) - 1 + (IF file.eof_newline THEN 1 ELSE 0)

\* what analyze_file reads from that file: every line is one word of one letter
AnalyzeProbe(file) ==
    TextProbe(NewlineCount(file), Len(file.text), Len(file.text) + NewlineCount(file))

\* the line count analyze_file records for the file, were it at /w/notes.txt
RecordedLines ==
    analyze_file(NewTotalStats, <<"/","w","/","n","o","t","e","s",".","t","x","t">>, AnalyzeProbe(tfile)).result.lines

\* C27: for a text file, the line count analyze_file records equals the number
\* of lines the truncator counts, so the body is truncated exactly when the
\* recorded count exceeds max_lines; with and without a newline at the end of
\* the file, and for the empty file.
C27_LineCountConsistency ==
    TruncReturned =>
        /\ RecordedLines = FileLen
        /\ was_truncated <=> RecordedLines > max_lines

\* ========================================================================
\* download_youtube.py: main submits one fetch_data call for each entry to a
\* thread pool of max_workers threads and collects the futures
\* ========================================================================
MaxEntries == 3
MaxWorkers == 2

\* an entry, by what its download does: ydl.download returns, or raises
EntryChoices == [raises : BOOLEAN]

DownloadFrame == UNCHANGED <<truncVars, gatherVars, orderVars, mainVars, parseVars>>

\* lines 117-119: the entries are extracted and the pool is made; all entries of
\* a run have the same output_dir, which is there already or not
DownloadInit ==
    /\ dpc = "submit"
    /\ video_entries \in SeqsUpTo(EntryChoices, MaxEntries)
    /\ max_workers \in 1 .. MaxWorkers
    /\ futures = <<>>
    /\ fpc = [i \in 1 .. Len(video_entries) |-> "unsubmitted"]
    /\ lock = None
    /\ output_dir_exists \in BOOLEAN
    /\ makedirs_calls = <<>>
    /\ yielded = {}
    /\ caught = {}
    /\ uncaught = None

\* the calls of fetch_data a pool thread is running
Running == {i \in 1 .. Len(fpc) : fpc[i] \in {"lock", "exists", "makedirs", "download"}}

\* the futures that are done, with a result or with an exception
Completed == {i \in 1 .. Len(fpc) : fpc[i] \in {"finished", "raised"}}

\* lines 120-123: executor.submit(fetch_data, entry, ...) for the next entry
DownloadSubmit ==
    /\ dpc = "submit"
    /\ Len(futures) < Len(video_entries)
    /\ futures' = Append(futures, Len(futures) + 1)
    /\ fpc' = [fpc EXCEPT ![Len(futures) + 1] = "queued"]
    /\ UNCHANGED <<dpc, video_entries, max_workers, lock, output_dir_exists,
                   makedirs_calls, yielded, caught, uncaught>>
    /\ DownloadFrame

\* line 124: the list is built, as_completed(futures) begins
DownloadSubmitted ==
    /\ dpc = "submit"
    /\ Len(futures) = Len(video_entries)
    /\ dpc' = "collect"
    /\ UNCHANGED <<video_entries, max_workers, futures, fpc, lock, output_dir_exists,
                   makedirs_calls, yielded, caught, uncaught>>
    /\ DownloadFrame

\* a pool thread takes the oldest queued call; lines 70-72 run up to the with
FetchStart(i) ==
    /\ fpc[i] = "queued"
    /\ \A j \in 1 .. (i - 1) : fpc[j] # "queued"
    /\ Cardinality(Running) < max_workers
    /\ fpc' = [fpc EXCEPT ![i] = "lock"]
    /\ UNCHANGED <<dpc, video_entries, max_workers, futures, lock, output_dir_exists,
                   makedirs_calls, yielded, caught, uncaught>>
    /\ DownloadFrame

\* line 74: with lock
\* a wrong variant, kept for comparison: the with block is entered without waiting for the lock
FetchAcquireWithoutWaiting(i) ==
    /\ fpc[i] = "lock"
    /\ lock' = Some(i)
    /\ fpc' = [fpc EXCEPT ![i] = "exists"]
    /\ UNCHANGED <<dpc, video_entries, max_workers, futures, output_dir_exists,
                   makedirs_calls, yielded, caught, uncaught>>
    /\ DownloadFrame

FetchAcquire(i) ==
    /\ fpc[i] = "lock"
    /\ lock = None
    /\ lock' = Some(i)
    /\ fpc' = [fpc EXCEPT ![i] = "exists"]
    /\ UNCHANGED <<dpc, video_entries, max_workers, futures, output_dir_exists,
                   makedirs_calls, yielded, caught, uncaught>>
    /\ DownloadFrame

\* line 75: if not os.path.exists(output_dir); when it exists the with block
\* ends and the lock is released
FetchExists(i) ==
    /\ fpc[i] = "exists"
    /\ IF output_dir_exists
       THEN /\ fpc' = [fpc EXCEPT ![i] = "download"]
            /\ lock' = None
       ELSE /\ fpc' = [fpc EXCEPT ![i] = "makedirs"]
            /\ UNCHANGED lock
    /\ UNCHANGED <<dpc, video_entries, max_workers, futures, output_dir_exists,
                   makedirs_calls, yielded, caught, uncaught>>
    /\ DownloadFrame

\* line 76: os.makedirs(output_dir), which raises FileExistsError when the
\* directory is there; the with block ends either way and the lock is released
FetchMakedirs(i) ==
    /\ fpc[i] = "makedirs"
    /\ makedirs_calls' = Append(makedirs_calls, [entry |-> i, existed |-> output_dir_exists])
    /\ output_dir_exists' = TRUE
    /\ fpc' = [fpc EXCEPT ![i] = IF output_dir_exists THEN "raised" ELSE "download"]
    /\ lock' = None
    /\ UNCHANGED <<dpc, video_entries, max_workers, futures, yielded, caught, uncaught>>
    /\ DownloadFrame

\* lines 78-95: ydl.download; what it raises is stored in the future
FetchDownload(i) ==
    /\ fpc[i] = "download"
    /\ fpc' = [fpc EXCEPT ![i] = IF video_entries[i].raises THEN "raised" ELSE "finished"]
    /\ UNCHANGED <<dpc, video_entries, max_workers, futures, lock, output_dir_exists,
                   makedirs_calls, yielded, caught, uncaught>>
    /\ DownloadFrame

\* lines 124-128: as_completed yields a future that is done; future.result()
\* returns, or raises what the call raised, which the except clause prints
\* a wrong variant, kept for comparison: the exception of future.result() is not caught and ends main
DownloadResultUncaught(i) ==
    /\ dpc = "collect"
    /\ i \in Range(futures) \ yielded
    /\ i \in Completed
    /\ yielded' = yielded \cup {i}
    /\ IF fpc[i] = "raised"
       THEN /\ uncaught' = Some("Exception")
            /\ dpc' = "returned"
       ELSE UNCHANGED <<uncaught, dpc>>
    /\ UNCHANGED <<video_entries, max_workers, futures, fpc, lock, output_dir_exists,
                   makedirs_calls, caught>>
    /\ DownloadFrame

DownloadResult(i) ==
    /\ dpc = "collect"
    /\ i \in Range(futures) \ yielded
    /\ i \in Completed
    /\ yielded' = yielded \cup {i}
    /\ caught' = IF fpc[i] = "raised" THEN caught \cup {i} ELSE caught
    /\ UNCHANGED <<dpc, video_entries, max_workers, futures, fpc, lock, output_dir_exists,
                   makedirs_calls, uncaught>>
    /\ DownloadFrame

\* lines 119 and 124: the loop ends when every future was yielded, the with
\* block ends with executor.shutdown(wait=True), and main returns
DownloadReturn ==
    /\ dpc = "collect"
    /\ yielded = Range(futures)
    /\ dpc' = "returned"
    /\ UNCHANGED <<video_entries, max_workers, futures, fpc, lock, output_dir_exists,
                   makedirs_calls, yielded, caught, uncaught>>
    /\ DownloadFrame

DownloadNext ==
    \/ DownloadSubmit
    \/ DownloadSubmitted
    \/ \E i \in 1 .. Len(video_entries) : FetchStart(i)
    \/ \E i \in 1 .. Len(video_entries) : FetchAcquire(i)
    \/ \E i \in 1 .. Len(video_entries) : FetchExists(i)
    \/ \E i \in 1 .. Len(video_entries) : FetchMakedirs(i)
    \/ \E i \in 1 .. Len(video_entries) : FetchDownload(i)
    \/ \E i \in 1 .. Len(video_entries) : DownloadResult(i)
    \/ DownloadReturn

InitDownload ==
    DownloadInit /\ TruncIdle /\ GatherIdle /\ OrderIdle /\ MainIdle /\ ParseIdle

SpecDownload == InitDownload /\ [][DownloadNext]_vars

\* ------------------------------------------------------------------------
\* what is said of the downloader
DownloadReturned == dpc = "returned"

\* the entries whose download raises
RaisingEntries == {i \in 1 .. Len(video_entries) : video_entries[i].raises}

\* C28: every entry is submitted to the pool exactly once; the exception of one
\* entry's fetch_data is caught at that entry's future and stops no other entry:
\* until main returns some step can always be taken, and when it returns every
\* submitted future is done, each entry with the outcome of its own download,
\* the raised ones printed by the except clause and no exception left main.
C28_DownloadFailureIsolation ==
    /\ \A k \in 1 .. Len(futures) : futures[k] = k
    /\ dpc \in {"collect", "returned"} => Len(futures) = Len(video_entries)
    /\ caught \subseteq RaisingEntries
    /\ dpc \in {"submit", "collect"} => ENABLED DownloadNext
    /\ DownloadReturned =>
          /\ \A i \in 1 .. Len(video_entries) :
                fpc[i] = IF video_entries[i].raises THEN "raised" ELSE "finished"
          /\ caught = RaisingEntries
          /\ uncaught = None

\* main returned from a run of two workers in which an entry whose download
\* raises was submitted before one whose download did not
C28_Witness ==
    /\ DownloadReturned
    /\ max_workers >= 2
    /\ \E i, j \in 1 .. Len(video_entries) :
          i < j /\ video_entries[i].raises /\ fpc[j] = "finished"

\* C29: the existence test and the creation of the output directory are made
\* by the call that holds the lock: the directory is created by at most one
\* call, os.makedirs is never called on a directory that is there, and a call
\* that is downloading, or is over, does not hold the lock.
C29_DirectoryCreation ==
    /\ Len(makedirs_calls) <= 1
    /\ \A k \in 1 .. Len(makedirs_calls) : ~makedirs_calls[k].existed
    /\ \A i \in 1 .. Len(fpc) :
          /\ fpc[i] \in {"exists", "makedirs"} => lock = Some(i)
          /\ fpc[i] \in {"download", "finished", "raised"} => lock # Some(i)

\* two calls are downloading at the same time, after one of them made the
\* directory while the other waited for the lock
C29_Witness ==
    /\ Len(makedirs_calls) = 1
    /\ \E i, j \in 1 .. Len(fpc) :
          /\ i # j
          /\ fpc[i] = "download"
          /\ fpc[j] = "download"
          /\ makedirs_calls[1].entry = i

====
